---- MODULE Spec2Model ----
(***************************************************************************)
(* Credential broker of opencode-qwencode-auth: the credential store       *)
(* (plugin/auth.ts), the token lifecycle manager (the plugin's loader in   *)
(* index.ts), the refresh call and the device-flow poll loops              *)
(* (qwen/oauth.ts and the authorize callback of index.ts).                 *)
(*                                                                         *)
(* Times are epoch milliseconds.  JavaScript runs one continuation at a    *)
(* time, so every action is the code between two awaits.                   *)
(***************************************************************************)
EXTENDS Integers, Sequences, FiniteSets, TLC

\* ------------------------------------------------------------------------
\* JavaScript values
\* ------------------------------------------------------------------------

\* an absent (undefined) string-valued property
Undef == "<undefined>"

\* an absent numeric property: undefined, null and NaN (all falsy, all
\* written by JSON.stringify as an omitted key or null)
NoNum == 0 - 1

TruthyStr(s) == s # Undef /\ s # ""

TruthyNum(n) == n # NoNum /\ n # 0

\* a || b on strings and on numbers
OrStr(a, b) == IF TruthyStr(a) THEN a ELSE b

OrNum(a, b) == IF TruthyNum(a) THEN a ELSE b

Min(a, b) == IF a <= b THEN a ELSE b

StartsWith(s, p) == Len(s) >= Len(p) /\ SubSeq(s, 1, Len(p)) = p

EndsWith(s, p) == Len(s) >= Len(p) /\ SubSeq(s, Len(s) - Len(p) + 1, Len(s)) = p

\* ------------------------------------------------------------------------
\* Bounds of the model and the clock
\* ------------------------------------------------------------------------

\* clock ticks the model lets pass
MaxTicks == 3

\* loader calls the host makes
MaxCalls == 2

\* writes of the credential file by the companion tool
MaxExtWrites == 1

\* access tokens the token endpoint issues on refresh
MaxIssued == 1

\* the 30 s expiry margin of the loader (index.ts) and of
\* isCredentialsExpired (qwen/oauth.ts)
LoaderBufferMs == 30000

ExpiryBufferMs == 30 * 1000

TickMs == LoaderBufferMs \div 3

\* Date.now() when the model starts
T0 == 10 * TickMs

\* ------------------------------------------------------------------------
\* Credentials (types.ts) and the credential file (plugin/auth.ts)
\* ------------------------------------------------------------------------

\* QwenCredentials | null; present = FALSE is null
NullCreds ==
  [present |-> FALSE, accessToken |-> Undef, tokenType |-> Undef,
   refreshToken |-> Undef, resourceUrl |-> Undef, expiryDate |-> NoNum,
   scope |-> Undef]

Creds(at, tt, rt, ru, ed, sc) ==
  [present |-> TRUE, accessToken |-> at, tokenType |-> tt,
   refreshToken |-> rt, resourceUrl |-> ru, expiryDate |-> ed, scope |-> sc]

\* the JSON object of ~/.qwen/oauth_creds.json: every key the code reads or
\* writes, absent keys Undef / NoNum
EmptyObj ==
  [access_token |-> Undef, accessToken |-> Undef,
   token_type |-> Undef, tokenType |-> Undef,
   refresh_token |-> Undef, refreshToken |-> Undef,
   resource_url |-> Undef, resourceUrl |-> Undef,
   expiry_date |-> NoNum, expiryDate |-> NoNum,
   expiresAt |-> NoNum, expires_at |-> NoNum,
   scope |-> Undef, email |-> Undef, updated_at |-> NoNum]

\* the file: missing, present with text that is no JSON object, or a JSON object
NoFile == [exists |-> FALSE, json |-> FALSE, obj |-> EmptyObj]

BadJsonFile == [exists |-> TRUE, json |-> FALSE, obj |-> EmptyObj]

JsonFile(o) == [exists |-> TRUE, json |-> TRUE, obj |-> o]

\* (mutant) a file that does not parse yields a record without values
loadCredentialsNoCatch(file) ==
  IF ~file.exists THEN NullCreds
  ELSE IF ~file.json THEN Creds("", "Bearer", Undef, Undef, NoNum, Undef)
  ELSE LET parsed == file.obj IN
    IF TruthyStr(parsed.access_token) \/ TruthyStr(parsed.accessToken)
    THEN Creds(OrStr(parsed.access_token, parsed.accessToken),
               OrStr(OrStr(parsed.token_type, parsed.tokenType), "Bearer"),
               OrStr(parsed.refresh_token, parsed.refreshToken),
               OrStr(parsed.resource_url, parsed.resourceUrl),
               OrNum(OrNum(parsed.expiry_date, parsed.expiresAt), parsed.expires_at),
               parsed.scope)
    ELSE NullCreds

loadCredentials(file) ==
  IF ~file.exists THEN NullCreds
  ELSE IF ~file.json THEN NullCreds
  ELSE LET parsed == file.obj IN
    IF TruthyStr(parsed.access_token) \/ TruthyStr(parsed.accessToken)
    THEN Creds(OrStr(parsed.access_token, parsed.accessToken),
               OrStr(OrStr(parsed.token_type, parsed.tokenType), "Bearer"),
               OrStr(parsed.refresh_token, parsed.refreshToken),
               OrStr(parsed.resource_url, parsed.resourceUrl),
               OrNum(OrNum(parsed.expiry_date, parsed.expiresAt), parsed.expires_at),
               parsed.scope)
    ELSE NullCreds

\* (mutant) the record is written with the field names of the domain type
saveCredentialsCamel(credentials) ==
  JsonFile([EmptyObj EXCEPT
    !.accessToken = credentials.accessToken,
    !.tokenType = OrStr(credentials.tokenType, "Bearer"),
    !.refreshToken = credentials.refreshToken,
    !.resourceUrl = credentials.resourceUrl,
    !.expiryDate = credentials.expiryDate,
    !.scope = credentials.scope])

\* the file saveCredentials(credentials) leaves behind
\* saveCredentials spreading its argument into the record it writes: the
\* camelCase fields would sit in the file beside the snake_case ones
saveCredentialsSpread(credentials) ==
  JsonFile([EmptyObj EXCEPT
    !.accessToken = credentials.accessToken,
    !.tokenType = credentials.tokenType,
    !.refreshToken = credentials.refreshToken,
    !.resourceUrl = credentials.resourceUrl,
    !.expiryDate = credentials.expiryDate,
    !.access_token = credentials.accessToken,
    !.token_type = OrStr(credentials.tokenType, "Bearer"),
    !.refresh_token = credentials.refreshToken,
    !.resource_url = credentials.resourceUrl,
    !.expiry_date = credentials.expiryDate,
    !.scope = credentials.scope])

saveCredentials(credentials) ==
  JsonFile([EmptyObj EXCEPT
    !.access_token = credentials.accessToken,
    !.token_type = OrStr(credentials.tokenType, "Bearer"),
    !.refresh_token = credentials.refreshToken,
    !.resource_url = credentials.resourceUrl,
    !.expiry_date = credentials.expiryDate,
    !.scope = credentials.scope])

isCredentialsExpired(credentials, t) ==
  IF ~TruthyNum(credentials.expiryDate) THEN FALSE
  ELSE t > credentials.expiryDate - ExpiryBufferMs

\* (mutant) the stored credential is used whatever its expiry
checkExistingCredentialsAnyAge(file, t) ==
  IF file.exists THEN loadCredentials(file) ELSE NullCreds

checkExistingCredentials(file, t) ==
  IF file.exists
  THEN LET creds == loadCredentials(file) IN
       IF creds.present /\ ~isCredentialsExpired(creds, t) THEN creds ELSE NullCreds
  ELSE NullCreds

\* a credential that is not being written: no input, nothing loaded
\* the two processes that write the file: the plugin (saveCredentials) and
\* the command-line helper
Writers == {"plugin", "cli"}

\* an answer of the device-code endpoint: status, the raw body text, and
\* the device_code and user_code of the JSON object the text parses to
DeviceResponse(status, statusText, text, dc, uc) ==
  [status |-> status, statusText |-> statusText, text |-> text,
   device_code |-> dc, user_code |-> uc]

NoDeviceResponse == DeviceResponse(0, "", "", Undef, Undef)

\* what requestDeviceAuthorization resolves to or throws
NoDeviceResult == [kind |-> "none", message |-> "", result |-> NoDeviceResponse]

OffCodec ==
  [pc |-> "off", style |-> "none", input |-> NullCreds, loaded |-> NullCreds,
   expired |-> FALSE, baseUrl |-> Undef, previous |-> NoFile,
   fd |-> [w \in Writers |-> "none"], data |-> [w \in Writers |-> NoFile],
   longer |-> "none", holds |-> "none", last |-> NoFile,
   requests |-> 0, response |-> NoDeviceResponse, device |-> NoDeviceResult,
   overwrite |-> Undef, token |-> Undef, saved |-> FALSE]

\* the same values as another tool spells them: every field in snake_case,
\* or every field in camelCase
SnakeObj(c) ==
  [EmptyObj EXCEPT !.access_token = c.accessToken, !.token_type = c.tokenType,
                   !.refresh_token = c.refreshToken, !.resource_url = c.resourceUrl,
                   !.expiry_date = c.expiryDate, !.scope = c.scope]

CamelObj(c) ==
  [EmptyObj EXCEPT !.accessToken = c.accessToken, !.tokenType = c.tokenType,
                   !.refreshToken = c.refreshToken, !.resourceUrl = c.resourceUrl,
                   !.expiryDate = c.expiryDate, !.scope = c.scope]

\* the credentials put through the file: an access token, and every
\* optional field absent, present, or (refresh token, expiry) present with
\* the empty string or zero
CodecInputs ==
  { Creds("a1", tt, rt, ru, ed, sc) :
      tt \in {Undef, "Bearer"}, rt \in {Undef, "r1", ""},
      ru \in {Undef, "portal.qwen.ai"}, ed \in {NoNum, 0, T0 + 5 * TickMs},
      sc \in {Undef, "openid"} }

CodecStyles == {"saved", "snake", "camel"}

\* what the file may hold before a write: nothing, or the record of another
\* tool with the token in both spellings, a camelCase refresh token and
\* expiry, and the helper's email and updated_at
PreviousObj ==
  [EmptyObj EXCEPT !.access_token = "old", !.accessToken = "old",
                   !.refreshToken = "oldr", !.expiresAt = T0,
                   !.resourceUrl = "old.qwen.ai",
                   !.email = "user@example.com", !.updated_at = T0]

PreviousFiles == {NoFile, JsonFile(PreviousObj)}

DefaultBaseUrl == "https://portal.qwen.ai/v1"

getBaseUrl(resourceUrl) ==
  IF ~TruthyStr(resourceUrl) THEN DefaultBaseUrl
  ELSE IF StartsWith(resourceUrl, "http")
       THEN (IF EndsWith(resourceUrl, "/v1") THEN resourceUrl ELSE resourceUrl \o "/v1")
       ELSE "https://" \o resourceUrl \o "/v1"

\* ------------------------------------------------------------------------
\* State
\* ------------------------------------------------------------------------

VARIABLES
  now,         \* Date.now()
  hostAuth,    \* what the host's getAuth() resolves to
  credFile,    \* ~/.qwen/oauth_creds.json
  issued,      \* access tokens the token endpoint has issued on refresh
  extWrites,   \* writes the companion tool has made
  calls,       \* loader calls started
  loader,      \* each loader call: its position, locals and result
  superseded,  \* host access tokens a successful refresh has replaced
  flow,        \* each device-flow attempt: its position, locals and result
  gvc,         \* the getValidCredentials() call: its position and result
  delays,      \* how late (ms) timers fire and network answers arrive
  codec        \* a credential on its way through the file and back

vars == <<now, hostAuth, credFile, issued, extWrites, calls, loader, superseded,
          flow, gvc, delays, codec>>

\* the state of the lifecycle manager, of the device flows, of the store
loaderVars == <<hostAuth, issued, calls, loader, superseded>>


\* ------------------------------------------------------------------------
\* The token endpoint, refresh grant (qwen/oauth.ts)
\* ------------------------------------------------------------------------

\* TokenResponse, the JSON body of a 2xx answer of the token endpoint
TokenResponse(at, rt, tt, ei, sc, ru) ==
  [access_token |-> at, refresh_token |-> rt, token_type |-> tt,
   expires_in |-> ei, scope |-> sc, resource_url |-> ru]

NoBody == TokenResponse(Undef, Undef, Undef, NoNum, Undef, Undef)

\* expires_in values (seconds) the token endpoint answers with: one inside
\* the 30 s margin, one outside it
ExpiresInChoices == {20, 50}

\* the n-th access token / refresh token the endpoint issues
IssuedToken(n) == "at" \o ToString(n)

IssuedRefresh(n) == "rt" \o ToString(n)

\* the answers the token endpoint can give to the n-th refresh it grants:
\* 2xx with a TokenResponse (with a new refresh token and a resource_url,
\* or without them), 2xx with a JSON body that is not a TokenResponse (an
\* empty object, or a token without expires_in), or a failure (non-2xx, or
\* the request itself failing)
RefreshResponses(n) ==
  { [ok |-> TRUE,
     body |-> TokenResponse(IssuedToken(n), rt, "Bearer", ei, "openid",
                            IF rt = Undef THEN Undef ELSE "portal.qwen.ai")] :
      rt \in {Undef, IssuedRefresh(n)}, ei \in ExpiresInChoices }
  \cup { [ok |-> TRUE, body |-> NoBody],
         [ok |-> TRUE,
          body |-> TokenResponse(IssuedToken(n), Undef, Undef, NoNum, Undef, Undef)] }
  \cup { [ok |-> FALSE, body |-> NoBody] }

\* Date.now() + expires_in * 1000 (NaN when expires_in is absent)
ExpiryFrom(t, expires_in) == IF expires_in = NoNum THEN NoNum ELSE t + expires_in * 1000

\* refreshAccessToken always keeping the refresh token it was called with
refreshAccessTokenKeepsOld(refreshToken, data, t) ==
  Creds(data.access_token,
        OrStr(data.token_type, "Bearer"),
        refreshToken,
        data.resource_url,
        ExpiryFrom(t, data.expires_in),
        data.scope)

\* what refreshAccessToken(refreshToken) resolves to on a 2xx answer `data`
refreshAccessToken(refreshToken, data, t) ==
  Creds(data.access_token,
        OrStr(data.token_type, "Bearer"),
        OrStr(data.refresh_token, refreshToken),
        data.resource_url,
        ExpiryFrom(t, data.expires_in),
        data.scope)

\* ------------------------------------------------------------------------
\* The loader (index.ts)
\* ------------------------------------------------------------------------

Calls == {"c1", "c2"}

NullResult == [isNull |-> TRUE, apiKey |-> Undef, baseURL |-> Undef]

Result(apiKey, baseURL) == [isNull |-> FALSE, apiKey |-> apiKey, baseURL |-> baseURL]

\* a loader call that has not started
IdleCall ==
  [pc |-> "idle", n |-> 0, arg |-> Undef, outcome |-> "none", refreshed |-> NullCreds,
   result |-> NullResult, wrote |-> FALSE, net |-> 0, retAt |-> NoNum]

\* a loader slot the host does not use
OffCall == [IdleCall EXCEPT !.pc = "off"]

\* !auth || auth.type !== 'oauth'
IsOAuth(auth) == auth.type = "oauth"

\* (mutant) the refresh condition without the 30 s margin
NeedsRefreshAtExpiry(auth, accessToken, t) ==
  /\ TruthyStr(accessToken)
  /\ TruthyNum(auth.expires)
  /\ t > auth.expires
  /\ TruthyStr(auth.refresh)

\* the refresh condition of the loader
NeedsRefresh(auth, accessToken, t) ==
  /\ TruthyStr(accessToken)
  /\ TruthyNum(auth.expires)
  /\ t > auth.expires - LoaderBufferMs
  /\ TruthyStr(auth.refresh)

\* the non-OAuth branch: the local store or null
LoaderLocalOnly(file, t) ==
  LET creds == checkExistingCredentials(file, t) IN
  IF creds.present THEN Result(creds.accessToken, getBaseUrl(creds.resourceUrl))
  ELSE NullResult

\* (mutant) the refreshed credential is not saved
FileAfterRefreshUnsaved(refreshed, file) == file

\* the file after a successful refresh: saveCredentials(refreshed)
FileAfterRefresh(refreshed, file) == saveCredentials(refreshed)

\* (mutant) the catch keeps the expired candidate
TokenKeptAfterRefreshFailure(accessToken) == accessToken

\* accessToken after the catch of a failed refresh
TokenAfterRefreshFailure(accessToken) == Undef

\* from the fallback to the return, with the candidate accessToken
LoaderTail(accessToken, file, t) ==
  LET fallback == checkExistingCredentials(file, t)
      token == IF TruthyStr(accessToken) THEN accessToken ELSE fallback.accessToken
  IN IF ~TruthyStr(accessToken) /\ ~fallback.present THEN NullResult
     ELSE IF ~TruthyStr(token) THEN NullResult
     ELSE Result(token, getBaseUrl(loadCredentials(file).resourceUrl))

\* the host credentials the model starts from: none, an API key, and OAuth
\* credentials with and without access token, refresh token and expiry
\* (already inside the margin, or entering it while the clock runs)
HostAuths ==
  { [type |-> "none", access |-> Undef, refresh |-> Undef, expires |-> NoNum],
    [type |-> "api", access |-> "key", refresh |-> Undef, expires |-> NoNum] }
  \cup { [type |-> "oauth", access |-> a, refresh |-> r, expires |-> e] :
           a \in {"h1", Undef}, r \in {"hr1", Undef},
           e \in {NoNum, T0 + 2 * TickMs, T0 + 5 * TickMs} }

\* a credential as the device flow or the companion tool saves it
StoredObj(at, rt, ru, ed) ==
  [EmptyObj EXCEPT !.access_token = at, !.token_type = "Bearer",
                   !.refresh_token = rt, !.resource_url = ru, !.expiry_date = ed]

\* the files the model starts from: none, unparsable, a credential that is
\* already expired, one that expires while the clock runs, one without
\* expiry, and the record the device flow saved when it handed the host
\* its credential (same tokens, same expiry)
InitialFiles(auth) ==
  { NoFile, BadJsonFile,
    JsonFile(StoredObj("s1", "sr1", "portal.qwen.ai", T0 + 2 * TickMs)),
    JsonFile(StoredObj("s2", "sr2", Undef, T0 + 5 * TickMs)),
    JsonFile(StoredObj("s3", Undef, "https://dashscope.aliyuncs.com/compatible-mode", NoNum)) }
  \cup { JsonFile(StoredObj(auth.access, auth.refresh, "portal.qwen.ai", auth.expires)) :
           x \in IF auth.type = "oauth" /\ TruthyStr(auth.access) /\ TruthyNum(auth.expires)
                 THEN {1} ELSE {} }

\* what the companion tool writes at time t: a fresh credential, or a bare
\* access token without expiry
ExternalObjs(t) ==
  { StoredObj("x1", "xr1", "portal.qwen.ai", t + 60 * 1000),
    [EmptyObj EXCEPT !.access_token = "x2", !.updated_at = t] }

\* the clock advances
Tick ==
  /\ now < T0 + MaxTicks * TickMs
  /\ now' = now + TickMs
  /\ UNCHANGED <<codec, delays, hostAuth, credFile, issued, extWrites, calls, loader, superseded,
                 flow, gvc>>

\* the companion tool overwrites the credential file
ExternalWrite(o) ==
  /\ extWrites < MaxExtWrites
  /\ extWrites' = extWrites + 1
  /\ credFile' = JsonFile(o)
  /\ UNCHANGED <<codec, delays, now, hostAuth, issued, calls, loader, superseded, flow, gvc>>

\* loader: from the call to its return or to the await of the refresh
LoaderStart(c) ==
  /\ loader[c].pc \in {"idle", "done"}
  /\ calls < MaxCalls
  /\ calls' = calls + 1
  /\ LET auth == hostAuth
         call == [IdleCall EXCEPT !.n = loader[c].n + 1] IN
     loader' = [loader EXCEPT ![c] =
       IF ~IsOAuth(auth)
       THEN [call EXCEPT !.pc = "done", !.retAt = now,
                         !.result = LoaderLocalOnly(credFile, now)]
       ELSE IF NeedsRefresh(auth, auth.access, now)
       THEN [call EXCEPT !.pc = "refreshing", !.arg = auth.refresh, !.net = 1]
       ELSE [call EXCEPT !.pc = "done", !.retAt = now,
                         !.result = LoaderTail(auth.access, credFile, now)]]
  /\ UNCHANGED <<codec, delays, now, hostAuth, credFile, issued, extWrites, superseded, flow, gvc>>

\* loader: the refresh resolves with a 2xx answer; save and return
LoaderRefreshOk(c, resp) ==
  /\ loader[c].pc = "refreshing"
  /\ resp.ok
  /\ issued < MaxIssued
  /\ issued' = issued + 1
  /\ LET refreshed == refreshAccessToken(loader[c].arg, resp.body, now)
         file == FileAfterRefresh(refreshed, credFile)
     IN /\ credFile' = file
        /\ loader' = [loader EXCEPT ![c] =
             [@ EXCEPT !.pc = "done", !.outcome = "ok", !.refreshed = refreshed,
                       !.wrote = TRUE, !.retAt = now,
                       !.result = LoaderTail(refreshed.accessToken, file, now)]]
  /\ superseded' = superseded \cup {hostAuth.access}
  /\ UNCHANGED <<codec, delays, now, hostAuth, extWrites, calls, flow, gvc>>

\* loader: the refresh rejects; fall back to the local store and return
LoaderRefreshFailed(c) ==
  /\ loader[c].pc = "refreshing"
  /\ loader' = [loader EXCEPT ![c] =
       [@ EXCEPT !.pc = "done", !.outcome = "failed", !.retAt = now,
                 !.result = LoaderTail(TokenAfterRefreshFailure(hostAuth.access),
                                       credFile, now)]]
  /\ UNCHANGED <<codec, delays, now, hostAuth, credFile, issued, extWrites, calls, superseded,
                 flow, gvc>>

\* ------------------------------------------------------------------------
\* The device flow: pollDeviceToken and the two poll loops
\* (qwen/oauth.ts, and the authorize method of index.ts)
\* ------------------------------------------------------------------------

Flows == {"f1", "f2"}

Max(a, b) == IF a >= b THEN a ELSE b

\* s.includes(p)
Includes(s, p) ==
  \E i \in 1..(Len(s) - Len(p) + 1) : SubSeq(s, i, i + Len(p) - 1) = p

\* an answer of the token endpoint to a poll: status, the raw body text,
\* whether the text parses as a JSON object, and the object's error and
\* error_description; for a 2xx answer, the TokenResponse
PollAnswer(status, statusText, text, json, error, descr, body) ==
  [status |-> status, statusText |-> statusText, text |-> text, json |-> json,
   error |-> error, error_description |-> descr, body |-> body]

NoAnswer == PollAnswer(0, "", "", FALSE, Undef, Undef, NoBody)

\* response.ok
ResponseOk(resp) == resp.status >= 200 /\ resp.status <= 299

\* the token the endpoint grants to flow f
GrantedBody(f, ei) ==
  TokenResponse("dat-" \o f, "drt-" \o f, "Bearer", ei, "openid", "portal.qwen.ai")

ErrorAnswer(status, statusText, error) ==
  PollAnswer(status, statusText, "{\"error\":\"" \o error \o "\"}", TRUE, error, Undef, NoBody)

\* what the token endpoint can answer to a poll of flow f: the token, the
\* two RFC 8628 continuation signals as the spec words them (400
\* authorization_pending, 429 slow_down), slow_down with the status RFC 8628
\* gives it (400), terminal errors, a 500 whose body is no JSON, and a 200
\* whose JSON body is an empty object
PollAnswers(f) ==
  { PollAnswer(200, "OK", "", TRUE, Undef, Undef, GrantedBody(f, ei)) : ei \in ExpiresInChoices }
  \cup { PollAnswer(200, "OK", "{}", TRUE, Undef, Undef, NoBody) }
  \cup { ErrorAnswer(400, "Bad Request", "authorization_pending"),
         ErrorAnswer(429, "Too Many Requests", "slow_down"),
         ErrorAnswer(400, "Bad Request", "slow_down"),
         ErrorAnswer(400, "Bad Request", "access_denied"),
         ErrorAnswer(400, "Bad Request", "expired_token"),
         PollAnswer(500, "Internal Server Error", "upstream error", FALSE, Undef, Undef, NoBody) }

\* what pollDeviceToken resolves to or throws on an answer:
\* kind "token" (the TokenResponse), "null" (still pending), "throw" (message)
PollToken(body) == [kind |-> "token", message |-> "", token |-> body]

PollNull == [kind |-> "null", message |-> "", token |-> NoBody]

PollThrow(message) == [kind |-> "throw", message |-> message, token |-> NoBody]

\* HTTP 429 with error=slow_down: still pending
SlowDownResult(resp) == PollNull

\* (mutant) authorization_pending is thrown like any other error answer
pollDeviceTokenPendingThrows(resp) ==
  IF ~ResponseOk(resp)
  THEN IF resp.json
       THEN IF resp.status = 429 /\ resp.error = "slow_down" THEN SlowDownResult(resp)
            ELSE PollThrow("Token poll failed: " \o OrStr(resp.error, "Unknown error")
                           \o " - " \o OrStr(resp.error_description, resp.text))
       ELSE PollThrow("Token poll failed: " \o ToString(resp.status) \o " "
                      \o resp.statusText \o ". Response: " \o resp.text)
  ELSE PollToken(resp.body)

pollDeviceToken(resp) ==
  IF ~ResponseOk(resp)
  THEN IF resp.json
       THEN IF resp.status = 400 /\ resp.error = "authorization_pending" THEN PollNull
            ELSE IF resp.status = 429 /\ resp.error = "slow_down" THEN SlowDownResult(resp)
            ELSE PollThrow("Token poll failed: " \o OrStr(resp.error, "Unknown error")
                           \o " - " \o OrStr(resp.error_description, resp.text))
       ELSE PollThrow("Token poll failed: " \o ToString(resp.status) \o " "
                      \o resp.statusText \o ". Response: " \o resp.text)
  ELSE PollToken(resp.body)

\* (mutant) the expiry is kept as a duration instead of an absolute time
tokenResponseToCredentialsRelative(tokenResponse, t) ==
  Creds(tokenResponse.access_token,
        OrStr(tokenResponse.token_type, "Bearer"),
        tokenResponse.refresh_token,
        tokenResponse.resource_url,
        ExpiryFrom(0, tokenResponse.expires_in),
        tokenResponse.scope)

tokenResponseToCredentials(tokenResponse, t) ==
  Creds(tokenResponse.access_token,
        OrStr(tokenResponse.token_type, "Bearer"),
        tokenResponse.refresh_token,
        tokenResponse.resource_url,
        ExpiryFrom(t, tokenResponse.expires_in),
        tokenResponse.scope)

\* the plugin callback: first interval, sleep margin, slow-down step, ceiling
PluginIntervalMs == 5000

POLLING_MARGIN_MS == 3000

PluginStepMs == 5000

PluginCeilingMs == 15000

\* performDeviceAuthFlow: the ceiling of the interval
PerformCeilingMs == 10000

\* the interval after a caught slow_down error
\* (interval * 1.5, exact for the even intervals the model starts from)
SlowDownInterval(kind, interval) ==
  IF kind = "plugin"
  THEN Min(interval + PluginStepMs, PluginCeilingMs)
  ELSE Min((interval * 3) \div 2, PerformCeilingMs)

\* (mutant) the plugin's margin replaces the interval instead of adding to it
SleepMsMarginOnly(kind, interval) ==
  IF kind = "plugin" THEN POLLING_MARGIN_MS ELSE 0

\* how long one iteration sleeps
SleepMs(kind, interval) ==
  IF kind = "plugin" THEN interval + POLLING_MARGIN_MS ELSE interval

\* the loop condition: Date.now() - startTime < timeoutMs
LoopContinues(fl, t) == t - fl.startTime < fl.timeoutMs

\* an answer of the device-code endpoint
DeviceAnswer(ok, dc, uc, url, ei) ==
  [ok |-> ok, device_code |-> dc, user_code |-> uc,
   verification_uri_complete |-> url, expires_in |-> ei]

\* expires_in values (seconds) of a device code
DeviceExpiresIn == {20, 30}

\* what the device-code endpoint can answer to flow f: a device code, or a
\* failure (non-2xx, or the request itself failing)
DeviceAnswers(f) ==
  { DeviceAnswer(TRUE, "dc-" \o f, "uc-" \o f, "https://chat.qwen.ai/d?code=uc-" \o f, ei) :
      ei \in DeviceExpiresIn }
  \cup { DeviceAnswer(FALSE, Undef, Undef, Undef, NoNum) }

\* the arguments <<pollIntervalMs, timeoutMs>> performDeviceAuthFlow is called with
PerformArgs == { <<2000, 5000>>, <<8000, 20000>>, <<12000, 20000>> }

\* network and timer delays (ms): prompt, or up to a second late
Delays == {0, 1000}

\* what the authorize callback hands to the host
NoHandOver == [type |-> "none", access |-> Undef, refresh |-> Undef, expires |-> NoNum]

\* a flow attempt that does not run
OffFlow ==
  [kind |-> "none", pc |-> "off", verifier |-> Undef, challenge |-> Undef,
   pollIntervalMs |-> NoNum, timeoutArg |-> NoNum,
   deviceAuth |-> DeviceAnswer(FALSE, Undef, Undef, Undef, NoNum),
   startTime |-> NoNum, timeoutMs |-> NoNum, interval |-> NoNum, wakeAt |-> NoNum,
   polls |-> 0, lastReqAt |-> NoNum, before |-> NoNum, answer |-> NoAnswer,
   outcome |-> "none", endedAt |-> NoNum, wrote |-> FALSE, notified |-> 0,
   shown |-> <<Undef, Undef>>, inflight |-> 0, lastRetAt |-> NoNum,
   pendings |-> 0, slowdowns |-> 0,
   sent |-> [device_code |-> Undef, code_verifier |-> Undef],
   handed |-> NoHandOver, creds |-> NullCreds]

\* a flow attempt before its first step: the plugin's authorize method, or
\* performDeviceAuthFlow(onVerificationUrl, pollIntervalMs, timeoutMs)
NewFlow(kind, args) ==
  [OffFlow EXCEPT !.kind = kind, !.pc = "init",
                  !.pollIntervalMs = args[1], !.timeoutArg = args[2]]

\* the head of the while loop at time t: sleep, or leave on the deadline
EnterLoop(fl, t) ==
  IF LoopContinues(fl, t)
  THEN [fl EXCEPT !.pc = "sleeping", !.wakeAt = t + SleepMs(fl.kind, fl.interval)]
  ELSE [fl EXCEPT !.pc = "done", !.outcome = "timeout", !.endedAt = t,
                  !.handed = IF fl.kind = "plugin"
                             THEN [NoHandOver EXCEPT !.type = "failed"] ELSE @]

\* the error leaves the loop: the callback returns failed, the orchestrator throws
LeaveOnError(fl, t) ==
  [fl EXCEPT !.pc = "done", !.endedAt = t,
             !.outcome = IF fl.kind = "plugin" THEN "failed" ELSE "threw",
             !.handed = IF fl.kind = "plugin"
                        THEN [NoHandOver EXCEPT !.type = "failed"] ELSE @]

\* (mutant) every error leaves the loop
CatchPollErrorAllFatal(fl, message, t) == LeaveOnError(fl, t)

\* the catch block of the loop on an error with this message
CatchPollError(fl, message, t) ==
  IF Includes(message, "slow_down")
  THEN EnterLoop([fl EXCEPT !.interval = SlowDownInterval(fl.kind, fl.interval)], t)
  ELSE IF fl.kind = "plugin" /\ Includes(message, "authorization_pending")
  THEN EnterLoop(fl, t)
  ELSE LeaveOnError(fl, t)

\* (mutant) the token is converted and saved but the loop is not left
LeaveOnTokenNoReturn(fl, tokenResponse, t) ==
  LET credentials == tokenResponseToCredentials(tokenResponse, t) IN
  EnterLoop([fl EXCEPT !.outcome = "success", !.endedAt = t,
                       !.creds = credentials,
                       !.wrote = (fl.kind = "plugin")], t)

\* the token arrived: convert, (plugin) save, return
LeaveOnToken(fl, tokenResponse, t) ==
  LET credentials == tokenResponseToCredentials(tokenResponse, t) IN
  [fl EXCEPT !.pc = "done", !.outcome = "success", !.endedAt = t,
             !.creds = credentials,
             !.wrote = (fl.kind = "plugin"),
             !.handed = IF fl.kind = "plugin"
                        THEN [type |-> "success",
                              access |-> credentials.accessToken,
                              refresh |-> OrStr(credentials.refreshToken, ""),
                              expires |-> OrNum(credentials.expiryDate, t + 3600000)]
                        ELSE @]

\* the two continuation signals of the token endpoint
IsPending(resp) == resp.status = 400 /\ resp.json /\ resp.error = "authorization_pending"

IsSlowDown(resp) == ~ResponseOk(resp) /\ resp.json /\ resp.error = "slow_down"

\* one loop body after the sleep, on the answer resp received at time t
AfterPoll(fl, resp, t) ==
  LET r == pollDeviceToken(resp)
      seen == [fl EXCEPT !.before = fl.interval, !.answer = resp,
                         !.inflight = @ - 1, !.lastRetAt = t,
                         !.pendings = IF IsPending(resp) THEN @ + 1 ELSE @,
                         !.slowdowns = IF IsSlowDown(resp) THEN @ + 1 ELSE @]
  IN IF r.kind = "token" THEN LeaveOnToken(seen, r.token, t)
     ELSE IF r.kind = "null" THEN EnterLoop(seen, t)
     ELSE CatchPollError(seen, r.message, t)

\* (mutant) the callback saves whatever pollDeviceToken resolved to
FileAfterPollUnchecked(fl, resp, t, file) ==
  LET r == pollDeviceToken(resp) IN
  IF fl.kind = "plugin" /\ r.kind # "throw"
  THEN saveCredentials(tokenResponseToCredentials(r.token, t))
  ELSE file

\* the credential file after that loop body: only the plugin callback
\* saves, and only the credential of a token it received
FileAfterPoll(fl, resp, t, file) ==
  LET r == pollDeviceToken(resp) IN
  IF fl.kind = "plugin" /\ r.kind = "token"
  THEN saveCredentials(tokenResponseToCredentials(r.token, t))
  ELSE file

\* (mutant) the callback gets its two arguments in the wrong order
onVerificationUrlSwapped(fl, da) ==
  [fl EXCEPT !.notified = @ + 1,
             !.shown = <<da.user_code, da.verification_uri_complete>>]

\* the orchestrator calls
\* onVerificationUrl(deviceAuth.verification_uri_complete, deviceAuth.user_code)
onVerificationUrl(fl, da) ==
  [fl EXCEPT !.notified = @ + 1,
             !.shown = <<da.verification_uri_complete, da.user_code>>]

\* (mutant) authorize opening the browser before it knows the answer
authorizeReturnOpensFirst(fl, da) ==
  [fl EXCEPT !.pc = "ready", !.deviceAuth = da, !.notified = 1,
             !.shown = <<IF da.ok THEN da.verification_uri_complete ELSE "",
                         da.user_code>>]

\* what the plugin's authorize does once the device-authorization request
\* is settled: on an answer, openBrowser and return the URL, the user code
\* and the callback; on a failure, no browser, url '' and no user code.
\* shown is <<url returned, user code shown>>, notified counts openBrowser.
authorizeReturn(fl, da) ==
  IF da.ok
  THEN [fl EXCEPT !.pc = "ready", !.deviceAuth = da, !.notified = 1,
                  !.shown = <<da.verification_uri_complete, da.user_code>>]
  ELSE [fl EXCEPT !.pc = "ready", !.deviceAuth = da, !.notified = 0,
                  !.shown = <<"", Undef>>]

\* generatePKCE and the device-authorization request
FlowStart(f) ==
  /\ flow[f].pc = "init"
  /\ flow' = [flow EXCEPT ![f] = [@ EXCEPT !.pc = "authorizing",
                                          !.verifier = "v-" \o f,
                                          !.challenge = "S256(v-" \o f \o ")"]]
  /\ UNCHANGED <<codec, delays, now, credFile, extWrites, loaderVars, gvc>>

\* the device-authorization answer arrives.  The plugin opens the browser
\* and returns the callback; the orchestrator notifies and enters its loop
DeviceAuthReturn(f, da, delay) ==
  /\ flow[f].pc = "authorizing"
  /\ now' = now + delay
  /\ flow' = [flow EXCEPT ![f] =
       IF flow[f].kind = "plugin"
       THEN authorizeReturn(@, da)
       ELSE IF da.ok
       THEN EnterLoop([onVerificationUrl(@, da) EXCEPT
                                !.deviceAuth = da,
                                !.startTime = now',
                                !.timeoutMs = flow[f].timeoutArg,
                                !.interval = flow[f].pollIntervalMs], now')
       ELSE [@ EXCEPT !.pc = "done", !.outcome = "threw", !.endedAt = now']]
  /\ UNCHANGED <<codec, delays, credFile, extWrites, loaderVars, gvc>>

\* the host invokes the callback the plugin returned
CallbackStart(f) ==
  /\ flow[f].pc = "ready"
  /\ flow' = [flow EXCEPT ![f] =
       IF flow[f].deviceAuth.ok
       THEN EnterLoop([@ EXCEPT !.startTime = now,
                                !.timeoutMs = flow[f].deviceAuth.expires_in * 1000,
                                !.interval = PluginIntervalMs], now)
       ELSE [@ EXCEPT !.pc = "done", !.outcome = "failed", !.endedAt = now,
                      !.handed = [NoHandOver EXCEPT !.type = "failed"]]]
  /\ UNCHANGED <<codec, delays, now, credFile, extWrites, loaderVars, gvc>>

\* (mutant) verifier and device code kept in one place shared by the
\* attempts and overwritten by the second attempt once it has them
PollRequestShared(fl) ==
  LET other == flow["f2"] IN
  [device_code |-> IF other.deviceAuth.ok THEN other.deviceAuth.device_code
                   ELSE fl.deviceAuth.device_code,
   code_verifier |-> IF other.verifier # Undef THEN other.verifier ELSE fl.verifier]

\* the body of the poll request: pollDeviceToken(deviceAuth.device_code, verifier)
\* with the attempt's own deviceAuth and verifier
PollRequest(fl) ==
  [device_code |-> fl.deviceAuth.device_code, code_verifier |-> fl.verifier]

\* the sleep ends (no earlier than asked for) and the poll request goes out
Wake(f, delay) ==
  /\ flow[f].pc = "sleeping"
  /\ now' = Max(now, flow[f].wakeAt) + delay
  /\ flow' = [flow EXCEPT ![f] = [@ EXCEPT !.pc = "polling", !.polls = @ + 1,
                                          !.inflight = @ + 1,
                                          !.sent = PollRequest(flow[f]),
                                          !.lastReqAt = now']]
  /\ UNCHANGED <<codec, delays, credFile, extWrites, loaderVars, gvc>>

\* the poll answer arrives and the loop body runs to the next await or return
PollReturn(f, resp, delay) ==
  /\ flow[f].pc = "polling"
  /\ now' = now + delay
  /\ flow' = [flow EXCEPT ![f] = AfterPoll(@, resp, now')]
  /\ credFile' = FileAfterPoll(flow[f], resp, now', credFile)
  /\ UNCHANGED <<codec, delays, extWrites, loaderVars, gvc>>

\* ------------------------------------------------------------------------
\* getValidCredentials (plugin/auth.ts)
\* ------------------------------------------------------------------------

\* with the QwenClient that called it: credentials is the client's
\* this.credentials and gotAt the time it was assigned, chat tells that the
\* call comes from chatCompletion, sent is the credential whose token went
\* into the last Authorization header, at sentAt, and sentGotAt the time
\* that credential had been assigned
OffGvc ==
  [pc |-> "off", arg |-> Undef, outcome |-> "none", result |-> NullCreds,
   wrote |-> FALSE, retAt |-> NoNum,
   credentials |-> NullCreds, gotAt |-> NoNum, chat |-> FALSE,
   sent |-> NullCreds, sentAt |-> NoNum, sentGotAt |-> NoNum]

\* from the call to its return or to the await of the refresh
GvcStart ==
  /\ gvc.pc = "idle"
  /\ LET credentials == loadCredentials(credFile) IN
     gvc' = IF ~credentials.present
            THEN [gvc EXCEPT !.pc = "done", !.retAt = now]
            ELSE IF isCredentialsExpired(credentials, now)
                    /\ TruthyStr(credentials.refreshToken)
            THEN [gvc EXCEPT !.pc = "refreshing", !.arg = credentials.refreshToken]
            ELSE [gvc EXCEPT !.pc = "done", !.result = credentials, !.retAt = now]
  /\ UNCHANGED <<codec, delays, now, credFile, extWrites, loaderVars, flow>>

\* the refresh resolves with a 2xx answer: save and return the new credential
GvcRefreshOk(resp) ==
  /\ gvc.pc = "refreshing"
  /\ resp.ok
  /\ issued < MaxIssued
  /\ issued' = issued + 1
  /\ LET credentials == refreshAccessToken(gvc.arg, resp.body, now) IN
     /\ credFile' = FileAfterRefresh(credentials, credFile)
     /\ gvc' = [gvc EXCEPT !.pc = "done", !.outcome = "ok", !.result = credentials,
                           !.wrote = TRUE, !.retAt = now]
  /\ UNCHANGED <<codec, delays, now, hostAuth, extWrites, calls, loader, superseded, flow>>

\* the refresh rejects: return null
GvcRefreshFailed ==
  /\ gvc.pc = "refreshing"
  /\ gvc' = [gvc EXCEPT !.pc = "done", !.outcome = "failed", !.retAt = now]
  /\ UNCHANGED <<codec, delays, now, credFile, extWrites, loaderVars, flow>>

\* ------------------------------------------------------------------------
\* Specifications
\* ------------------------------------------------------------------------

\* the lifecycle manager: loader calls, the clock, the companion tool
Init ==
  /\ now = T0
  /\ hostAuth \in HostAuths
  /\ credFile \in InitialFiles(hostAuth)
  /\ issued = 0
  /\ extWrites = 0
  /\ calls = 0
  /\ loader = [c \in Calls |-> IdleCall]
  /\ superseded = {}
  /\ flow = [f \in Flows |-> OffFlow]
  /\ gvc = OffGvc
  /\ delays = Delays
  /\ codec = OffCodec

LoaderNext ==
  \/ \E c \in Calls : LoaderStart(c)
  \/ \E c \in Calls : \E resp \in RefreshResponses(issued + 1) : LoaderRefreshOk(c, resp)
  \/ \E c \in Calls : LoaderRefreshFailed(c)

Next ==
  \/ Tick
  \/ \E o \in ExternalObjs(now) : ExternalWrite(o)
  \/ LoaderNext

Spec == Init /\ [][Next]_vars

\* one device-flow attempt: the plugin's authorize method, or
\* performDeviceAuthFlow with each of its argument pairs
PollInitWith(ds) ==
  /\ now = T0
  /\ hostAuth = [type |-> "none", access |-> Undef, refresh |-> Undef, expires |-> NoNum]
  /\ credFile \in {NoFile, JsonFile(StoredObj("s2", "sr2", Undef, T0 + 5 * TickMs))}
  /\ issued = 0
  /\ extWrites = 0
  /\ calls = 0
  /\ loader = [c \in Calls |-> IdleCall]
  /\ superseded = {}
  /\ \E fl \in {NewFlow("plugin", <<NoNum, NoNum>>)} \cup {NewFlow("perform", a) : a \in PerformArgs} :
       flow = [f \in Flows |-> IF f = "f1" THEN fl ELSE OffFlow]
  /\ gvc = OffGvc
  /\ delays = ds
  /\ codec = OffCodec

PollInit == PollInitWith(Delays)

FlowNext ==
  \/ \E f \in Flows : FlowStart(f)
  \/ \E f \in Flows : \E da \in DeviceAnswers(f) : \E d \in delays : DeviceAuthReturn(f, da, d)
  \/ \E f \in Flows : CallbackStart(f)
  \/ \E f \in Flows : \E d \in delays : Wake(f, d)
  \/ \E f \in Flows : \E resp \in PollAnswers(f) : \E d \in delays : PollReturn(f, resp, d)

PollSpec == PollInit /\ [][FlowNext]_vars

\* the same attempt when the user never decides: every poll is answered
\* authorization_pending or slow_down, every timer fires and every request
\* returns
ContinueAnswers(f) == { a \in PollAnswers(f) : IsPending(a) \/ IsSlowDown(a) }

PendingNext ==
  \/ \E f \in Flows : FlowStart(f)
  \/ \E f \in Flows : \E da \in DeviceAnswers(f) : \E d \in delays : DeviceAuthReturn(f, da, d)
  \/ \E f \in Flows : CallbackStart(f)
  \/ \E f \in Flows : \E d \in delays : Wake(f, d)
  \/ \E f \in Flows : \E resp \in ContinueAnswers(f) : \E d \in delays : PollReturn(f, resp, d)

PendingSpec ==
  /\ PollInit
  /\ [][PendingNext]_vars
  /\ \A f \in Flows :
       /\ WF_vars(\E d \in delays : Wake(f, d))
       /\ WF_vars(\E resp \in ContinueAnswers(f) : \E d \in delays : PollReturn(f, resp, d))

\* the same attempt when every timer fires on time and every answer is
\* immediate
PromptInit == PollInitWith({0})

PromptSpec == PromptInit /\ [][FlowNext]_vars

\* two attempts at once: the plugin's authorize method called twice, or
\* once next to a performDeviceAuthFlow
OverlapInit ==
  /\ now = T0
  /\ hostAuth = [type |-> "none", access |-> Undef, refresh |-> Undef, expires |-> NoNum]
  /\ credFile = NoFile
  /\ issued = 0
  /\ extWrites = 0
  /\ calls = 0
  /\ loader = [c \in Calls |-> IdleCall]
  /\ superseded = {}
  /\ \E second \in {NewFlow("plugin", <<NoNum, NoNum>>), NewFlow("perform", <<2000, 5000>>)} :
       flow = [f \in Flows |-> IF f = "f1" THEN NewFlow("plugin", <<NoNum, NoNum>>)
                               ELSE second]
  /\ gvc = OffGvc
  /\ delays = {0}
  /\ codec = OffCodec

\* the answers given while two attempts run: a device code of the shorter
\* lifetime or a failure; the token, authorization_pending or access_denied
OverlapDeviceAnswers(f) ==
  { da \in DeviceAnswers(f) : da.expires_in # 30 }

OverlapPollAnswers(f) ==
  { a \in PollAnswers(f) :
      \/ IsPending(a)
      \/ a.error = "access_denied"
      \/ ResponseOk(a) /\ a.body.expires_in = 50 }

OverlapNext ==
  \/ \E f \in Flows : FlowStart(f)
  \/ \E f \in Flows : \E da \in OverlapDeviceAnswers(f) : DeviceAuthReturn(f, da, 0)
  \/ \E f \in Flows : CallbackStart(f)
  \/ \E f \in Flows : Wake(f, 0)
  \/ \E f \in Flows : \E resp \in OverlapPollAnswers(f) : PollReturn(f, resp, 0)

OverlapSpec == OverlapInit /\ [][OverlapNext]_vars

\* a credential written to the file, by saveCredentials or by a tool using
\* one of the two naming conventions, and loaded back
CodecInit ==
  /\ now = T0
  /\ hostAuth = [type |-> "none", access |-> Undef, refresh |-> Undef, expires |-> NoNum]
  /\ credFile \in PreviousFiles
  /\ issued = 0
  /\ extWrites = 0
  /\ calls = 0
  /\ loader = [c \in Calls |-> OffCall]
  /\ superseded = {}
  /\ flow = [f \in Flows |-> OffFlow]
  /\ gvc = OffGvc
  /\ delays = {0}
  /\ \E c \in CodecInputs : \E st \in CodecStyles :
       codec = [OffCodec EXCEPT !.pc = "init", !.style = st, !.input = c]

CodecWrite ==
  /\ codec.pc = "init"
  /\ credFile' = IF codec.style = "saved" THEN saveCredentials(codec.input)
                 ELSE IF codec.style = "snake" THEN JsonFile(SnakeObj(codec.input))
                 ELSE JsonFile(CamelObj(codec.input))
  /\ codec' = [codec EXCEPT !.pc = "written", !.previous = credFile]
  /\ UNCHANGED <<delays, now, extWrites, loaderVars, flow, gvc>>

CodecLoad ==
  /\ codec.pc = "written"
  /\ codec' = [codec EXCEPT !.pc = "loaded", !.loaded = loadCredentials(credFile)]
  /\ UNCHANGED <<delays, now, credFile, extWrites, loaderVars, flow, gvc>>

CodecNext == CodecWrite \/ CodecLoad

CodecSpec == CodecInit /\ [][CodecNext]_vars

\* isCredentialsExpired applied to a credential at a time: no expiry, the
\* expiry 0, and expiries around the clock readings
ExpiryDates ==
  {NoNum, 0, 1, ExpiryBufferMs, T0, T0 + ExpiryBufferMs - 1, T0 + ExpiryBufferMs,
   T0 + ExpiryBufferMs + 1, T0 + 2 * ExpiryBufferMs}

ClockReadings ==
  {0, 1, T0 - 1, T0, T0 + 1, T0 + ExpiryBufferMs, T0 + 2 * ExpiryBufferMs}

ExpiryInit ==
  /\ now \in ClockReadings
  /\ hostAuth = [type |-> "none", access |-> Undef, refresh |-> Undef, expires |-> NoNum]
  /\ credFile = NoFile
  /\ issued = 0
  /\ extWrites = 0
  /\ calls = 0
  /\ loader = [c \in Calls |-> OffCall]
  /\ superseded = {}
  /\ flow = [f \in Flows |-> OffFlow]
  /\ gvc = OffGvc
  /\ delays = {0}
  /\ \E ed \in ExpiryDates :
       codec = [OffCodec EXCEPT !.pc = "init", !.style = "expiry",
                                !.input = Creds("a1", "Bearer", Undef, Undef, ed, Undef)]

ExpiryCheck ==
  /\ codec.pc = "init"
  /\ codec.style = "expiry"
  /\ codec' = [codec EXCEPT !.pc = "checked",
                            !.expired = isCredentialsExpired(codec.input, now)]
  /\ UNCHANGED <<delays, now, credFile, extWrites, loaderVars, flow, gvc>>

ExpirySpec == ExpiryInit /\ [][ExpiryCheck]_vars

\* --- the two writers of the file, one system call at a time ---
\* writeFileSync(path, text) opens the path for writing, which empties the
\* file, writes the text from offset 0 through its own descriptor, and
\* closes it.  The plugin and the helper are two processes, so the calls of
\* one can fall between the open and the write of the other.
\* codec.fd is each writer's descriptor, codec.data the text each writes,
\* codec.longer the writer whose text is the longer one ("none": same
\* length), codec.holds what the file's bytes are, codec.last the text of
\* the writeFileSync that returned last.
WriterTexts ==
  [plugin : { saveCredentials(Creds("a1", "Bearer", "r1", "portal.qwen.ai", T0 + 5 * TickMs, Undef)),
              saveCredentials(Creds("a2", Undef, Undef, Undef, T0 + 5 * TickMs, Undef)) },
   cli : { JsonFile(o) : o \in ExternalObjs(T0) }]

WriteInit ==
  /\ now = T0
  /\ hostAuth = [type |-> "none", access |-> Undef, refresh |-> Undef, expires |-> NoNum]
  /\ credFile \in PreviousFiles
  /\ issued = 0
  /\ extWrites = 0
  /\ calls = 0
  /\ loader = [c \in Calls |-> OffCall]
  /\ superseded = {}
  /\ flow = [f \in Flows |-> OffFlow]
  /\ gvc = OffGvc
  /\ delays = {0}
  /\ \E d \in WriterTexts : \E l \in Writers \cup {"none"} :
       codec = [OffCodec EXCEPT !.pc = "writing", !.data = d, !.longer = l,
                                !.holds = "previous", !.last = credFile]

\* writeFileSync, first half: open(path, 'w') truncates the file
writeFileSyncOpen(w) ==
  /\ codec.pc = "writing"
  /\ codec.fd[w] = "none"
  /\ credFile' = BadJsonFile
  /\ codec' = [codec EXCEPT !.fd[w] = "open", !.holds = "empty"]
  /\ UNCHANGED <<delays, now, extWrites, loaderVars, flow, gvc>>

\* what the file holds after w wrote its text at offset 0: the text alone
\* when the file was empty or held nothing longer, and otherwise the text
\* followed by the end of the longer text, which does not parse
BytesAfterWrite(w) ==
  IF codec.holds \in {"empty", w} \/ codec.longer \in {w, "none"}
  THEN [file |-> codec.data[w], holds |-> w]
  ELSE [file |-> BadJsonFile, holds |-> "torn"]

\* writeFileSync, second half: write the text, close, return
writeFileSyncWrite(w) ==
  /\ codec.pc = "writing"
  /\ codec.fd[w] = "open"
  /\ credFile' = BytesAfterWrite(w).file
  /\ codec' = [codec EXCEPT !.fd[w] = "closed", !.holds = BytesAfterWrite(w).holds,
                            !.last = codec.data[w]]
  /\ UNCHANGED <<delays, now, extWrites, loaderVars, flow, gvc>>

WriteNext == \E w \in Writers : writeFileSyncOpen(w) \/ writeFileSyncWrite(w)

WriteSpec == WriteInit /\ [][WriteNext]_vars

\* --- requestDeviceAuthorization on its own ---
\* the JSON text of a 2xx answer holding the given fields
DeviceBodyText(dc, uc) ==
  "{" \o (IF dc = Undef THEN "" ELSE "\"device_code\":\"" \o dc \o "\",")
      \o (IF uc = Undef THEN "" ELSE "\"user_code\":\"" \o uc \o "\",")
      \o "\"expires_in\":600}"

\* the answers of the device-code endpoint: 2xx with device_code and
\* user_code present, empty or missing, and failures with a body
DeviceResponses ==
  { DeviceResponse(st[1], st[2], DeviceBodyText(dc, uc), dc, uc) :
      st \in {<<200, "OK">>, <<201, "Created">>},
      dc \in {Undef, "", "dc1"}, uc \in {Undef, "", "uc1"} }
  \cup { DeviceResponse(st[1], st[2], text, Undef, Undef) :
      st \in {<<400, "Bad Request">>, <<401, "Unauthorized">>, <<403, "Forbidden">>,
              <<429, "Too Many Requests">>, <<500, "Internal Server Error">>,
              <<503, "Service Unavailable">>},
      text \in {"{\"error\":\"invalid_client\"}", "upstream error", "<html>blocked</html>"} }

DeviceOk(resp) == [kind |-> "ok", message |-> "", result |-> resp]

DeviceThrow(message) == [kind |-> "throw", message |-> message, result |-> NoDeviceResponse]

\* requestDeviceAuthorization after its fetch resolved with resp
requestDeviceAuthorization(resp) ==
  IF ~ResponseOk(resp)
  THEN DeviceThrow("Device authorization failed: " \o ToString(resp.status) \o " "
                   \o resp.statusText \o ". Response: " \o resp.text)
  ELSE IF ~TruthyStr(resp.device_code) \/ ~TruthyStr(resp.user_code)
  THEN DeviceThrow("Invalid device authorization response")
  ELSE DeviceOk(resp)

DeviceInit ==
  /\ now = T0
  /\ hostAuth = [type |-> "none", access |-> Undef, refresh |-> Undef, expires |-> NoNum]
  /\ credFile = NoFile
  /\ issued = 0
  /\ extWrites = 0
  /\ calls = 0
  /\ loader = [c \in Calls |-> OffCall]
  /\ superseded = {}
  /\ flow = [f \in Flows |-> OffFlow]
  /\ gvc = OffGvc
  /\ delays = {0}
  /\ \E resp \in DeviceResponses :
       codec = [OffCodec EXCEPT !.pc = "init", !.style = "device", !.response = resp]

\* the one fetch of requestDeviceAuthorization
DeviceFetch ==
  /\ codec.pc = "init"
  /\ codec.style = "device"
  /\ codec' = [codec EXCEPT !.pc = "awaiting", !.requests = @ + 1]
  /\ UNCHANGED <<delays, now, credFile, extWrites, loaderVars, flow, gvc>>

\* the answer arrives: return it or throw
DeviceReturn ==
  /\ codec.pc = "awaiting"
  /\ codec.style = "device"
  /\ codec' = [codec EXCEPT !.pc = "returned",
                            !.device = requestDeviceAuthorization(codec.response)]
  /\ UNCHANGED <<delays, now, credFile, extWrites, loaderVars, flow, gvc>>

DeviceNext == DeviceFetch \/ DeviceReturn

DeviceSpec == DeviceInit /\ [][DeviceNext]_vars

\* --- getBaseUrl on its own ---
\* the resource_url values a credential can hold: absent, empty, and a host
\* (two of them beginning with the letters "http") with or without scheme
\* and path
ResourceUrls ==
  {Undef, ""}
  \cup { scheme \o host \o path :
           scheme \in {"", "http://", "https://"},
           host \in {"portal.qwen.ai", "dashscope.aliyuncs.com", "localhost:8080",
                     "httpbin.example.com", "http-gw.internal"},
           path \in {"", "/v1", "/compatible-mode", "/compatible-mode/v1", "/v1/"} }

BaseUrlInit ==
  /\ now = T0
  /\ hostAuth = [type |-> "none", access |-> Undef, refresh |-> Undef, expires |-> NoNum]
  /\ credFile = NoFile
  /\ issued = 0
  /\ extWrites = 0
  /\ calls = 0
  /\ loader = [c \in Calls |-> OffCall]
  /\ superseded = {}
  /\ flow = [f \in Flows |-> OffFlow]
  /\ gvc = OffGvc
  /\ delays = {0}
  /\ \E ru \in ResourceUrls :
       codec = [OffCodec EXCEPT !.pc = "init", !.style = "baseUrl",
                                !.input = Creds("a1", "Bearer", Undef, ru, NoNum, Undef)]

BaseUrlCompute ==
  /\ codec.pc = "init"
  /\ codec.style = "baseUrl"
  /\ codec' = [codec EXCEPT !.pc = "computed",
                            !.baseUrl = getBaseUrl(codec.input.resourceUrl)]
  /\ UNCHANGED <<delays, now, credFile, extWrites, loaderVars, flow, gvc>>

BaseUrlSpec == BaseUrlInit /\ [][BaseUrlCompute]_vars

\* --- the command-line helper (cli.ts) ---
\* String.prototype.toLowerCase, one character and a whole string
LowerChar(c) ==
  CASE c = "A" -> "a" []
       c = "B" -> "b" []
       c = "C" -> "c" []
       c = "D" -> "d" []
       c = "E" -> "e" []
       c = "F" -> "f" []
       c = "G" -> "g" []
       c = "H" -> "h" []
       c = "I" -> "i" []
       c = "J" -> "j" []
       c = "K" -> "k" []
       c = "L" -> "l" []
       c = "M" -> "m" []
       c = "N" -> "n" []
       c = "O" -> "o" []
       c = "P" -> "p" []
       c = "Q" -> "q" []
       c = "R" -> "r" []
       c = "S" -> "s" []
       c = "T" -> "t" []
       c = "U" -> "u" []
       c = "V" -> "v" []
       c = "W" -> "w" []
       c = "X" -> "x" []
       c = "Y" -> "y" []
       c = "Z" -> "z" []
       OTHER -> c

RECURSIVE toLowerCase(_)
toLowerCase(s) ==
  IF Len(s) = 0 THEN ""
  ELSE LowerChar(SubSeq(s, 1, 1)) \o toLowerCase(SubSeq(s, 2, Len(s)))

\* String.prototype.trim (the answers of the model hold no white space
\* other than the space)
RECURSIVE trim(_)
trim(s) ==
  IF Len(s) > 0 /\ SubSeq(s, 1, 1) = " " THEN trim(SubSeq(s, 2, Len(s)))
  ELSE IF Len(s) > 0 /\ SubSeq(s, Len(s), Len(s)) = " " THEN trim(SubSeq(s, 1, Len(s) - 1))
  ELSE s

\* (mutant) any answer beginning with y counts as a yes
OverwriteConfirmedLoose(answer) == StartsWith(toLowerCase(answer), "y")

\* overwrite.toLowerCase() !== 'y' leaves; anything else goes on
OverwriteConfirmed(answer) == toLowerCase(answer) = "y"

\* accessToken: the trimmed token without a leading "Bearer "
CleanToken(token) ==
  LET accessToken == trim(token) IN
  IF StartsWith(toLowerCase(accessToken), "bearer ")
  THEN SubSeq(accessToken, 8, Len(accessToken))
  ELSE accessToken

\* the record the helper writes
CliCredentials(token, email, t) ==
  [EmptyObj EXCEPT !.access_token = CleanToken(token),
                   !.email = IF trim(email) = "" THEN Undef ELSE trim(email),
                   !.updated_at = t]

\* what the user types at the three prompts
OverwriteAnswers == {"y", "Y", "n", "", "yes", " y"}

TokenAnswers == {"", "  ", "tok1", "Bearer tok1", " bearer tok1 ", "BEARER tok2", "Bearer"}

EmailAnswers == {"", " user@example.com "}

\* the files the helper finds: none, one that does not parse, one with an
\* access_token (the plugin's record, or the helper's own), one with an
\* empty access_token, one with the token under the camelCase key only
CliFiles ==
  { NoFile, BadJsonFile,
    JsonFile(StoredObj("s2", "sr2", Undef, T0 + 5 * TickMs)),
    JsonFile([EmptyObj EXCEPT !.access_token = "x2", !.updated_at = T0 - TickMs]),
    JsonFile([EmptyObj EXCEPT !.access_token = ""]),
    JsonFile([EmptyObj EXCEPT !.accessToken = "s5"]) }

CliInit ==
  /\ now = T0
  /\ hostAuth = [type |-> "none", access |-> Undef, refresh |-> Undef, expires |-> NoNum]
  /\ credFile \in CliFiles
  /\ issued = 0
  /\ extWrites = 0
  /\ calls = 0
  /\ loader = [c \in Calls |-> OffCall]
  /\ superseded = {}
  /\ flow = [f \in Flows |-> OffFlow]
  /\ gvc = OffGvc
  /\ delays = {0}
  /\ codec = [OffCodec EXCEPT !.pc = "start", !.style = "cli", !.previous = credFile]

\* main, up to its first prompt: JSON.parse throws on a file that does not
\* parse and the process exits; a file with an access_token leads to the
\* overwrite prompt, anything else to the token prompt
CliStart ==
  /\ codec.style = "cli"
  /\ codec.pc = "start"
  /\ codec' = [codec EXCEPT !.pc =
       IF credFile.exists /\ ~credFile.json THEN "crashed"
       ELSE IF credFile.exists /\ TruthyStr(credFile.obj.access_token) THEN "askOverwrite"
       ELSE "askToken"]
  /\ UNCHANGED <<delays, now, credFile, extWrites, loaderVars, flow, gvc>>

\* the answer to 'Overwrite existing credentials? (y/N)'
CliOverwrite(answer) ==
  /\ codec.style = "cli"
  /\ codec.pc = "askOverwrite"
  /\ codec' = [codec EXCEPT !.overwrite = answer,
                            !.pc = IF OverwriteConfirmed(answer) THEN "askToken" ELSE "kept"]
  /\ UNCHANGED <<delays, now, credFile, extWrites, loaderVars, flow, gvc>>

\* the pasted token: an empty one ends the run
CliToken(token) ==
  /\ codec.style = "cli"
  /\ codec.pc = "askToken"
  /\ codec' = [codec EXCEPT !.token = token,
                            !.pc = IF trim(token) = "" THEN "noToken" ELSE "askEmail"]
  /\ UNCHANGED <<delays, now, credFile, extWrites, loaderVars, flow, gvc>>

\* the email, then the write of the file
CliEmail(email) ==
  /\ codec.style = "cli"
  /\ codec.pc = "askEmail"
  /\ credFile' = JsonFile(CliCredentials(codec.token, email, now))
  /\ codec' = [codec EXCEPT !.pc = "saved", !.saved = TRUE]
  /\ UNCHANGED <<delays, now, extWrites, loaderVars, flow, gvc>>

CliNext ==
  \/ Tick
  \/ CliStart
  \/ \E answer \in OverwriteAnswers : CliOverwrite(answer)
  \/ \E token \in TokenAnswers : CliToken(token)
  \/ \E email \in EmailAnswers : CliEmail(email)

CliSpec == CliInit /\ [][CliNext]_vars

\* every writer of the credential file but the companion tool: one loader
\* call on an expired host credential, one getValidCredentials call and one
\* device-flow attempt, interleaved
StoreInit ==
  /\ now = T0
  /\ hostAuth = [type |-> "oauth", access |-> "h1", refresh |-> "hr1",
                 expires |-> T0 + 2 * TickMs]
  /\ credFile \in {NoFile, JsonFile(StoredObj("s1", "sr1", "portal.qwen.ai", T0 + 2 * TickMs))}
  /\ issued = 0
  /\ extWrites = 0
  /\ calls = MaxCalls - 1
  /\ loader = [c \in Calls |-> IF c = "c1" THEN IdleCall ELSE OffCall]
  /\ superseded = {}
  /\ \E fl \in {NewFlow("plugin", <<NoNum, NoNum>>)} \cup {NewFlow("perform", a) : a \in PerformArgs} :
       flow = [f \in Flows |-> IF f = "f1" THEN fl ELSE OffFlow]
  /\ gvc = [OffGvc EXCEPT !.pc = "idle"]
  /\ delays = {0}
  /\ codec = OffCodec

GvcNext ==
  \/ GvcStart
  \/ \E resp \in RefreshResponses(issued + 1) : GvcRefreshOk(resp)
  \/ GvcRefreshFailed

StoreNext ==
  \/ LoaderNext
  \/ FlowNext
  \/ GvcNext

StoreSpec == StoreInit /\ [][StoreNext]_vars

\* the readers of the credential file (one loader call, one
\* getValidCredentials call) when the file is missing, does not parse, or
\* holds an expired credential
ReaderInit ==
  /\ now = T0
  /\ hostAuth \in HostAuths
  /\ credFile \in {NoFile, BadJsonFile,
                   JsonFile(StoredObj("s1", "sr1", "portal.qwen.ai", T0 + 2 * TickMs))}
  /\ issued = 0
  /\ extWrites = 0
  /\ calls = MaxCalls - 1
  /\ loader = [c \in Calls |-> IF c = "c1" THEN IdleCall ELSE OffCall]
  /\ superseded = {}
  /\ flow = [f \in Flows |-> OffFlow]
  /\ gvc = [OffGvc EXCEPT !.pc = "idle"]
  /\ delays = {0}
  /\ codec = OffCodec

ReaderNext ==
  \/ Tick
  \/ LoaderNext
  \/ GvcNext

ReaderSpec == ReaderInit /\ [][ReaderNext]_vars

\* --- QwenClient ---
\* a new client: this.credentials = null
NewClient == [OffGvc EXCEPT !.pc = "ready"]

\* the client calls getValidCredentials, keeping its own fields
CallGetValidCredentials(client, chat) ==
  [NewClient EXCEPT !.pc = "idle", !.chat = chat,
                    !.credentials = client.credentials, !.gotAt = client.gotAt,
                    !.sent = client.sent, !.sentAt = client.sentAt,
                    !.sentGotAt = client.sentGotAt]

\* fetch(..., { headers: { Authorization: getAuthHeader() } })
SendChat(client, t) ==
  [client EXCEPT !.sent = client.credentials, !.sentAt = t, !.sentGotAt = client.gotAt]

\* the credentials setCredentials is called with: one that expires while
\* the clock runs, one already expired
DirectCredentials ==
  { Creds("c1", "Bearer", "cr1", Undef, T0 + 5 * TickMs, Undef),
    Creds("c2", "Bearer", Undef, Undef, T0 + TickMs, Undef) }

ClientInit ==
  /\ now = T0
  /\ hostAuth = [type |-> "none", access |-> Undef, refresh |-> Undef, expires |-> NoNum]
  /\ credFile \in {NoFile,
                   JsonFile(StoredObj("s1", "sr1", "portal.qwen.ai", T0 + 2 * TickMs)),
                   JsonFile(StoredObj("s2", "sr2", Undef, T0 + 5 * TickMs)),
                   JsonFile(StoredObj("s4", Undef, Undef, T0 + 2 * TickMs))}
  /\ issued = 0
  /\ extWrites = 0
  /\ calls = 0
  /\ loader = [c \in Calls |-> OffCall]
  /\ superseded = {}
  /\ flow = [f \in Flows |-> OffFlow]
  /\ gvc = NewClient
  /\ delays = {0}
  /\ codec = OffCodec

\* initialize(): up to the await of getValidCredentials
initialize ==
  /\ gvc.pc = "ready"
  /\ gvc' = CallGetValidCredentials(gvc, FALSE)
  /\ UNCHANGED <<codec, delays, now, credFile, extWrites, loaderVars, flow>>

\* getValidCredentials returned: this.credentials = result; inside
\* chatCompletion the request goes out when the result is not null
initializeReturn ==
  /\ gvc.pc = "done"
  /\ LET assigned == [gvc EXCEPT !.pc = "ready", !.chat = FALSE,
                                 !.credentials = gvc.result, !.gotAt = now] IN
     gvc' = IF gvc.chat /\ gvc.result.present THEN SendChat(assigned, now) ELSE assigned
  /\ UNCHANGED <<codec, delays, now, credFile, extWrites, loaderVars, flow>>

setCredentials(credentials) ==
  /\ gvc.pc = "ready"
  /\ gvc' = [gvc EXCEPT !.credentials = credentials, !.gotAt = now]
  /\ UNCHANGED <<codec, delays, now, credFile, extWrites, loaderVars, flow>>

\* chatCompletion(request): initialize first when this.credentials is
\* null, else send the request with the token of this.credentials
chatCompletion ==
  /\ gvc.pc = "ready"
  /\ gvc' = IF ~gvc.credentials.present THEN CallGetValidCredentials(gvc, TRUE)
            ELSE SendChat(gvc, now)
  /\ UNCHANGED <<codec, delays, now, credFile, extWrites, loaderVars, flow>>

ClientNext ==
  \/ Tick
  \/ GvcNext
  \/ initialize
  \/ initializeReturn
  \/ \E c \in DirectCredentials : setCredentials(c)
  \/ chatCompletion

ClientSpec == ClientInit /\ [][ClientNext]_vars

\* ------------------------------------------------------------------------
\* Properties of the lifecycle manager
\* ------------------------------------------------------------------------

\* the access token and the expiry the credential file holds
StoredToken(file) == OrStr(file.obj.access_token, file.obj.accessToken)

StoredExpiry(file) ==
  OrNum(OrNum(file.obj.expiry_date, file.obj.expiresAt), file.obj.expires_at)

\* the local store holds a credential that is not expired at time t
StoreHoldsFresh(file, t) ==
  /\ file.exists
  /\ file.json
  /\ TruthyStr(StoredToken(file))
  /\ (TruthyNum(StoredExpiry(file)) => t <= StoredExpiry(file) - 30000)

\* the host credential has an expiry and is inside the 30 s margin at time t
HostExpired(t) == hostAuth.expires # NoNum /\ t > hostAuth.expires - 30000

\* in this step loader call c starts / returns
Started(c) == loader'[c].n # loader[c].n

Returned(c) ==
  /\ loader'[c].pc = "done"
  /\ (loader[c].pc = "refreshing" \/ Started(c))

\* C1: when the refresh of an expired OAuth host credential succeeds (the
\* endpoint answers 2xx with a new access token), the loader returns the
\* access token the endpoint issued, the store then holds the refreshed
\* credential, and no loader call returning after that returns the replaced
\* host access token.
C1_RefreshReplacesToken ==
  [][\A c \in Calls :
       /\ (/\ loader[c].pc = "refreshing"
           /\ loader'[c].outcome = "ok"
           /\ TruthyStr(loader'[c].refreshed.accessToken)) =>
            /\ IsOAuth(hostAuth) /\ HostExpired(now) /\ TruthyStr(hostAuth.refresh)
            /\ loader'[c].pc = "done"
            /\ ~loader'[c].result.isNull
            /\ loader'[c].result.apiKey = IssuedToken(issued')
            /\ StoredToken(credFile') = IssuedToken(issued')
            /\ loadCredentials(credFile').refreshToken = loader'[c].refreshed.refreshToken
            /\ loadCredentials(credFile').expiryDate = loader'[c].refreshed.expiryDate
            /\ TruthyNum(loader'[c].refreshed.expiryDate) =>
                 loader'[c].refreshed.expiryDate > now
       /\ (Returned(c) /\ hostAuth.access \in superseded) =>
            loader'[c].result.apiKey # hostAuth.access
    ]_vars

\* C1 witness: one call refreshed successfully and a later call, whose own
\* refresh failed, returned the token the first one stored.
C1_Witness ==
  \E c, d \in Calls :
    /\ loader[c].pc = "done" /\ loader[c].outcome = "ok"
    /\ loader[d].pc = "done" /\ loader[d].outcome = "failed"
    /\ loader[d].retAt > loader[c].retAt
    /\ loader[d].result.apiKey = loader[c].result.apiKey
    /\ loader[c].result.apiKey = IssuedToken(1)
    /\ StoredToken(credFile) = IssuedToken(1)

\* C2: when the refresh fails the loader returns (it does not throw), never
\* with the expired host token: it returns the store's access token if the
\* store holds a credential that is not expired, and null otherwise.
C2_FailedRefreshFallsBack ==
  [][\A c \in Calls :
       (loader[c].pc = "refreshing" /\ loader'[c].outcome = "failed") =>
         /\ loader'[c].pc = "done"
         /\ loader'[c].result.apiKey # hostAuth.access
         /\ IF StoreHoldsFresh(credFile, now)
            THEN /\ ~loader'[c].result.isNull
                 /\ loader'[c].result.apiKey = StoredToken(credFile)
            ELSE loader'[c].result = NullResult
    ]_vars

\* C2 witness: a refresh failed and the call returned the store's token.
C2_Witness ==
  \E c \in Calls :
    /\ loader[c].pc = "done" /\ loader[c].outcome = "failed"
    /\ ~loader[c].result.isNull
    /\ loader[c].result.apiKey = "s2"

\* C3 (as claimed): the loader never returns the host credential's access
\* token while that credential has an expiry and now > expiry - 30000 ms,
\* with or without a refresh token.
C3_NoExpiredHostToken ==
  \A c \in Calls :
    (/\ loader[c].pc = "done"
     /\ IsOAuth(hostAuth)
     /\ ~loader[c].result.isNull
     /\ loader[c].result.apiKey = hostAuth.access)
    => ~HostExpired(loader[c].retAt)

\* C4 (amended): a loader call calls refreshAccessToken exactly when the host
\* credential is of OAuth type, has an access token, has an expiry with
\* now > expiry - 30000 ms and has a refresh token; at most once per call.
C4_RefreshExactlyWhenDue ==
  [][\A c \in Calls :
       /\ Started(c) =>
            /\ (loader'[c].pc = "refreshing") <=>
                 (/\ IsOAuth(hostAuth)
                  /\ TruthyStr(hostAuth.access)
                  /\ HostExpired(now)
                  /\ TruthyStr(hostAuth.refresh))
            /\ loader'[c].net = (IF loader'[c].pc = "refreshing" THEN 1 ELSE 0)
            /\ loader'[c].pc = "refreshing" => loader'[c].arg = hostAuth.refresh
       /\ ~Started(c) => loader'[c].net = loader[c].net
    ]_vars

\* C4 witness: a call awaits its one refresh request, inside the margin.
C4_Witness ==
  \E c \in Calls :
    /\ loader[c].pc = "refreshing" /\ loader[c].net = 1
    /\ now <= hostAuth.expires
    /\ HostExpired(now)

\* C4 (as claimed): the refresh is called whenever the host credential is of
\* OAuth type, is inside the margin and has a refresh token.
C4_RefreshWheneverExpired ==
  [][\A c \in Calls :
       (Started(c) /\ IsOAuth(hostAuth) /\ HostExpired(now) /\ TruthyStr(hostAuth.refresh))
         => loader'[c].pc = "refreshing"
    ]_vars

\* C5: with no host credential, or one that is not of OAuth type, the loader
\* returns the store's access token when the store holds a credential that
\* is not expired and null otherwise, issues no request and leaves the store.
C5_NonOAuthUsesStoreOnly ==
  [][\A c \in Calls :
       (Started(c) /\ ~IsOAuth(hostAuth)) =>
         /\ loader'[c].pc = "done"
         /\ loader'[c].net = 0
         /\ ~loader'[c].wrote
         /\ credFile' = credFile
         /\ issued' = issued
         /\ IF StoreHoldsFresh(credFile, now)
            THEN /\ ~loader'[c].result.isNull
                 /\ loader'[c].result.apiKey = StoredToken(credFile)
            ELSE loader'[c].result = NullResult
    ]_vars

\* C5 witness: without an OAuth host credential a call returned the store's
\* token, and another returned null once that credential had expired.
C5_Witness ==
  /\ ~IsOAuth(hostAuth)
  /\ \E c, d \in Calls :
       /\ loader[c].pc = "done" /\ loader[c].result.apiKey = "s2"
       /\ loader[d].pc = "done" /\ loader[d].result.isNull
       /\ loader[d].retAt > loader[c].retAt

\* C6 (as claimed): the loader returns null only when the host credential
\* gave no usable token (none, not OAuth, no access token, or inside the
\* margin and sent to refresh) and the store holds no credential that is
\* not expired: a call that finds such a credential in the store when it
\* runs its last step, in which it is the only writer, returns a token.
C6_NullOnlyWithoutAnyToken ==
  [][\A c \in Calls :
       (Returned(c) /\ loader'[c].result.isNull) =>
         /\ ~StoreHoldsFresh(credFile, now)
         /\ \/ ~IsOAuth(hostAuth)
            \/ ~TruthyStr(hostAuth.access)
            \/ (HostExpired(now) /\ loader[c].pc = "refreshing")
    ]_vars

\* ------------------------------------------------------------------------
\* Properties of the store and of the poll loops
\* ------------------------------------------------------------------------

\* C7: a refresh that fails (in the loader or in getValidCredentials) and a
\* poll that does not end in a token (pending, slow-down, terminal error,
\* timeout) leave the credential file as it was.
C7_FailuresLeaveStore ==
  [][/\ \A c \in Calls :
          (loader[c].pc = "refreshing" /\ loader'[c].outcome = "failed")
            => (credFile' = credFile /\ ~loader'[c].wrote)
     /\ (gvc.pc = "refreshing" /\ gvc'.outcome = "failed")
          => (credFile' = credFile /\ ~gvc'.wrote)
     /\ \A f \in Flows :
          (flow[f].pc = "polling" /\ flow'[f].pc # "polling" /\ flow'[f].outcome # "success")
            => (credFile' = credFile /\ ~flow'[f].wrote)
    ]_vars

\* C7 witness: the loader's refresh failed, getValidCredentials' refresh
\* failed and the plugin's poll loop ended without a token, after polls
\* answered pending; the file still holds the credential it started with.
C7_Witness ==
  /\ loader["c1"].outcome = "failed"
  /\ gvc.outcome = "failed"
  /\ flow["f1"].kind = "plugin"
  /\ flow["f1"].pc = "done"
  /\ flow["f1"].outcome \in {"failed", "timeout"}
  /\ flow["f1"].polls >= 2
  /\ StoredToken(credFile) = "s1"

\* the ceiling of the poll interval in each loop
Ceiling(kind) == IF kind = "plugin" THEN PluginCeilingMs ELSE PerformCeilingMs

\* the loop has handled an answer
Answered(fl) == fl.answer.status # 0

\* C8 (as claimed): after a poll answered HTTP 429 slow_down the next wait
\* interval is strictly greater than the one before, unless that one was at
\* the ceiling already, and it never exceeds the ceiling.
C8_SlowDownRaisesInterval ==
  \A f \in Flows :
    (flow[f].answer.status = 429 /\ flow[f].answer.error = "slow_down") =>
      /\ flow[f].interval <= Ceiling(flow[f].kind)
      /\ (flow[f].interval > flow[f].before \/ flow[f].before >= Ceiling(flow[f].kind))

\* C9 (as claimed): no poll request is issued after the deadline
\* (startTime + timeoutMs), and the loop returns failure no later than it.
C9_NothingPastDeadline ==
  \A f \in Flows :
    /\ flow[f].polls > 0 => flow[f].lastReqAt <= flow[f].startTime + flow[f].timeoutMs
    /\ (flow[f].pc = "done" /\ flow[f].startTime # NoNum /\ flow[f].outcome # "success")
         => flow[f].endedAt <= flow[f].startTime + flow[f].timeoutMs

\* C10 (as claimed): a non-2xx answer that is neither 400 authorization_pending
\* nor 429 slow_down ends the loop with failure, with no further poll.
C10_OtherErrorsAreFatal ==
  \A f \in Flows :
    (/\ Answered(flow[f])
     /\ ~ResponseOk(flow[f].answer)
     /\ ~(flow[f].answer.status = 400 /\ flow[f].answer.error = "authorization_pending")
     /\ ~(flow[f].answer.status = 429 /\ flow[f].answer.error = "slow_down"))
    => (flow[f].pc = "done" /\ flow[f].outcome \in {"failed", "threw"})

\* in this step flow f handles the answer to its poll
Handled(f) == flow[f].pc = "polling" /\ flow'[f].pc # "polling"

\* C11: a poll answered HTTP 400 authorization_pending raises no error:
\* pollDeviceToken returns null, the loop keeps its interval, and it sleeps
\* for the next poll unless the deadline has passed, in which case it ends
\* with the timeout outcome.
C11_PendingIsNotAnError ==
  [][\A f \in Flows :
       (Handled(f) /\ IsPending(flow'[f].answer)) =>
         /\ pollDeviceToken(flow'[f].answer) = PollNull
         /\ flow'[f].interval = flow[f].interval
         /\ flow'[f].outcome \notin {"failed", "threw"}
         /\ IF now' - flow[f].startTime < flow[f].timeoutMs
            THEN /\ flow'[f].pc = "sleeping"
                 /\ flow'[f].wakeAt >= now' + flow[f].interval
            ELSE flow'[f].pc = "done" /\ flow'[f].outcome = "timeout"
    ]_vars

\* C11 witness: performDeviceAuthFlow has sent its third poll after two
\* answers of authorization_pending, with the interval it started with.
C11_Witness ==
  \E f \in Flows :
    /\ flow[f].kind = "perform"
    /\ flow[f].pc = "polling"
    /\ flow[f].polls = 3
    /\ flow[f].pendings = 2
    /\ flow[f].interval = flow[f].pollIntervalMs

\* the answer is HTTP 200 with a token response
IsGrant(resp) ==
  /\ ResponseOk(resp)
  /\ TruthyStr(resp.body.access_token)
  /\ resp.body.expires_in # NoNum

\* C12: after any number of authorization_pending answers, a poll answered
\* HTTP 200 with a token ends the flow with success on that answer, with no
\* further poll; the credential produced, and the one the plugin callback
\* persists and hands to the host, expires at the time the token was
\* received plus expires_in * 1000.
C12_TokenEndsFlowWithExpiry ==
  [][\A f \in Flows :
       (Handled(f) /\ IsGrant(flow'[f].answer)) =>
         LET token == flow'[f].answer.body
             expiry == now' + token.expires_in * 1000
         IN /\ flow'[f].pc = "done"
            /\ flow'[f].outcome = "success"
            /\ flow'[f].polls = flow[f].polls
            /\ flow'[f].creds.accessToken = token.access_token
            /\ flow'[f].creds.expiryDate = expiry
            /\ IF flow[f].kind = "plugin"
               THEN /\ StoredToken(credFile') = token.access_token
                    /\ credFile'.obj.expiry_date = expiry
                    /\ loadCredentials(credFile').expiryDate = expiry
                    /\ flow'[f].handed.type = "success"
                    /\ flow'[f].handed.access = token.access_token
                    /\ flow'[f].handed.expires = expiry
               ELSE credFile' = credFile
    ]_vars

\* C12 witness: the plugin callback got authorization_pending twice and
\* then the token, before the deadline, and the file holds its expiry.
C12_Witness ==
  \E f \in Flows :
    /\ flow[f].kind = "plugin"
    /\ flow[f].outcome = "success"
    /\ flow[f].polls = 3
    /\ flow[f].pendings = 2
    /\ flow[f].endedAt < flow[f].startTime + flow[f].timeoutMs
    /\ credFile.obj.expiry_date = flow[f].endedAt + flow[f].answer.body.expires_in * 1000

\* in this step flow f sends a poll request
Polls(f) == flow[f].pc = "sleeping" /\ flow'[f].pc = "polling"

\* C13: a poll request goes out only when at least the current interval has
\* passed since the previous poll returned (since the loop started, for the
\* first poll), and a flow attempt never has two poll requests in flight.
C13_WaitsBetweenPolls ==
  [][\A f \in Flows :
       /\ Polls(f) =>
            /\ flow[f].inflight = 0
            /\ now' >= flow[f].interval
                       + (IF flow[f].polls = 0 THEN flow[f].startTime ELSE flow[f].lastRetAt)
       /\ flow'[f].inflight \in {0, 1}
       /\ flow'[f].inflight = 1 <=> flow'[f].pc = "polling"
    ]_vars

\* C13 witness: a second poll goes out exactly one raised interval after
\* the first one returned with a slow-down error.
C13_Witness ==
  \E f \in Flows :
    /\ flow[f].kind = "perform"
    /\ flow[f].pc = "polling"
    /\ flow[f].polls = 2
    /\ flow[f].interval > flow[f].pollIntervalMs
    /\ flow[f].lastReqAt = flow[f].lastRetAt + flow[f].interval

\* C14 (as claimed): during a flow attempt the poll interval never decreases
\* from one poll to the next, whatever interval the loop starts with.
C14_IntervalNeverDecreases ==
  [][\A f \in Flows :
       flow[f].interval # NoNum => flow'[f].interval >= flow[f].interval
    ]_vars

\* b to the power n
RECURSIVE Pow(_, _)
Pow(b, n) == IF n = 0 THEN 1 ELSE b * Pow(b, n - 1)

\* the interval a loop starts with
BaseInterval(fl) == IF fl.kind = "plugin" THEN PluginIntervalMs ELSE fl.pollIntervalMs

\* C15 (as claimed): in a loop whose base interval is not above the cap,
\* while every answer so far was a slow-down signal, the interval in force
\* after the n-th of them is min(base * 1.5^n, cap) (compared after
\* multiplying both sides by 2^n).
C15_GeometricBackoff ==
  \A f \in Flows :
    (/\ flow[f].pc \in {"sleeping", "polling"}
     /\ BaseInterval(flow[f]) <= Ceiling(flow[f].kind)
     /\ flow[f].polls - flow[f].inflight = flow[f].slowdowns)
    => LET n == flow[f].slowdowns IN
       flow[f].interval * Pow(2, n)
         = Min(BaseInterval(flow[f]) * Pow(3, n), Ceiling(flow[f].kind) * Pow(2, n))

\* C16: when every poll is answered pending or slow-down and every request
\* returns, a poll loop that has started ends with the timeout outcome:
\* performDeviceAuthFlow throws 'Device authorization timeout', the plugin
\* callback returns {type: 'failed'}.
C16_PendingEndsInTimeout ==
  \A f \in Flows :
    (flow[f].pc \in {"sleeping", "polling"})
      ~> (/\ flow[f].pc = "done"
          /\ flow[f].outcome = "timeout"
          /\ flow[f].kind = "plugin" => flow[f].handed.type = "failed")

\* C16 witness: a loop ended with the timeout outcome after pending and
\* slow-down answers, past its deadline.
C16_Witness ==
  \E f \in Flows :
    /\ flow[f].pc = "done"
    /\ flow[f].outcome = "timeout"
    /\ flow[f].pendings >= 1
    /\ flow[f].slowdowns >= 1
    /\ flow[f].endedAt >= flow[f].startTime + flow[f].timeoutMs

\* C17: performDeviceAuthFlow calls onVerificationUrl exactly once, with the
\* verification_uri_complete and the user_code of the device-authorization
\* answer, once that answer is there and before the first poll; it does not
\* call it when the device-authorization request fails.
C17_NotifiesOnceBeforePolling ==
  \A f \in Flows :
    flow[f].kind = "perform" =>
      /\ flow[f].notified <= 1
      /\ flow[f].pc \in {"init", "authorizing"} => flow[f].notified = 0
      /\ (flow[f].pc \in {"sleeping", "polling"} \/ flow[f].polls > 0) =>
           /\ flow[f].deviceAuth.ok
           /\ flow[f].notified = 1
      /\ flow[f].notified = 1 =>
           flow[f].shown = <<flow[f].deviceAuth.verification_uri_complete,
                             flow[f].deviceAuth.user_code>>
      /\ flow[f].pc = "done" =>
           flow[f].notified = (IF flow[f].deviceAuth.ok THEN 1 ELSE 0)

\* C17 witness: performDeviceAuthFlow returned credentials after two polls,
\* having shown the URL and the code of its device authorization once.
C17_Witness ==
  \E f \in Flows :
    /\ flow[f].kind = "perform"
    /\ flow[f].outcome = "success"
    /\ flow[f].polls = 2
    /\ flow[f].notified = 1
    /\ flow[f].shown = <<"https://chat.qwen.ai/d?code=uc-" \o f, "uc-" \o f>>

\* C18: once a flow attempt's loop has returned success, failure or timeout
\* (or thrown), the attempt is over: it sends no further poll with its
\* device code and nothing about it changes.
C18_NoPollAfterReturn ==
  [][\A f \in Flows :
       flow[f].outcome # "none" =>
         /\ flow[f].pc = "done"
         /\ flow'[f].polls = flow[f].polls
         /\ flow'[f].inflight = 0
         /\ flow'[f] = flow[f]
    ]_vars

\* C18 witness: the plugin's loop has returned failure after two polls
\* while the loader and getValidCredentials ran to their ends.
C18_Witness ==
  /\ flow["f1"].kind = "plugin"
  /\ flow["f1"].pc = "done"
  /\ flow["f1"].outcome = "failed"
  /\ flow["f1"].polls = 2
  /\ loader["c1"].pc = "done"
  /\ gvc.pc = "done"

\* valid credentials: an access token, and each optional field either
\* absent or holding a value (a non-empty string, a positive timestamp)
ValidCredentials(c) ==
  /\ c.present
  /\ TruthyStr(c.accessToken)
  /\ c.refreshToken # ""
  /\ c.resourceUrl # ""
  /\ c.scope # ""
  /\ c.expiryDate = NoNum \/ c.expiryDate > 0

\* C19: for valid credentials c, loadCredentials after saveCredentials(c)
\* yields a record with the accessToken, refreshToken, resourceUrl,
\* expiryDate and scope of c.
C19_SaveLoadRoundTrip ==
  (codec.pc = "loaded" /\ codec.style = "saved" /\ ValidCredentials(codec.input)) =>
    /\ codec.loaded.present
    /\ codec.loaded.accessToken = codec.input.accessToken
    /\ codec.loaded.refreshToken = codec.input.refreshToken
    /\ codec.loaded.resourceUrl = codec.input.resourceUrl
    /\ codec.loaded.expiryDate = codec.input.expiryDate
    /\ codec.loaded.scope = codec.input.scope

\* C19 witness: a credential with every optional field set came back from
\* the file saveCredentials wrote.
C19_Witness ==
  /\ codec.pc = "loaded"
  /\ codec.style = "saved"
  /\ credFile.obj.access_token = "a1"
  /\ codec.input.refreshToken = "r1"
  /\ codec.input.resourceUrl = "portal.qwen.ai"
  /\ codec.input.expiryDate = T0 + 5 * TickMs
  /\ codec.input.scope = "openid"
  /\ codec.loaded.expiryDate = T0 + 5 * TickMs
  /\ codec.loaded.refreshToken = "r1"

\* C20 (as claimed): a file spelled in camelCase loads to the same record as
\* the file that holds the same (valid) values spelled in snake_case.
C20_CamelLoadsLikeSnake ==
  (codec.pc = "loaded" /\ codec.style = "camel" /\ ValidCredentials(codec.input)) =>
    codec.loaded = loadCredentials(JsonFile(SnakeObj(codec.input)))

\* C21: loadCredentials returns null for a file that does not parse, as for
\* a missing file, and its callers then do what they do without a file:
\* checkExistingCredentials returns null, the loader returns what it
\* returns with no file, getValidCredentials returns null without a request.
C21_UnparsableFileIsNoFile ==
  [][(credFile = BadJsonFile) =>
       /\ loadCredentials(credFile) = NullCreds
       /\ checkExistingCredentials(credFile, now) = NullCreds
       /\ \A c \in Calls :
            /\ (Started(c) /\ ~IsOAuth(hostAuth)) => loader'[c].result = NullResult
            /\ (Returned(c) /\ IsOAuth(hostAuth) /\ credFile' = credFile) =>
                 loader'[c].result =
                   LoaderTail(IF Started(c) THEN hostAuth.access ELSE Undef, NoFile, now)
       /\ (gvc.pc = "idle" /\ gvc'.pc # "idle") =>
            gvc' = [gvc EXCEPT !.pc = "done", !.retAt = now]
    ]_vars

\* C21 witness: with a file that does not parse, the loader returned the
\* host's token with the default base URL and getValidCredentials
\* returned null.
C21_Witness ==
  /\ credFile = BadJsonFile
  /\ loader["c1"].pc = "done"
  /\ loader["c1"].result = Result("h1", DefaultBaseUrl)
  /\ gvc.pc = "done"
  /\ gvc.result = NullCreds

\* C22 (as claimed): isCredentialsExpired is true exactly when the expiry is
\* present (0 included) and now > expiryDate - 30000, and false when the
\* expiry is absent.
C22_ExpiredIffPastMargin ==
  codec.pc = "checked" =>
    (codec.expired <=>
       (codec.input.expiryDate # NoNum /\ now > codec.input.expiryDate - 30000))

\* C23 (as claimed): every record the plugin writes to the credential file,
\* after a poll answered 2xx or after a refresh that resolved, has a
\* non-empty access_token and an integer expiry_date, whatever the body.
C23_WrittenRecordsComplete ==
  [][(\/ \E c \in Calls : loader'[c].wrote /\ ~loader[c].wrote
      \/ gvc'.wrote /\ ~gvc.wrote
      \/ \E f \in Flows : flow'[f].wrote /\ ~flow[f].wrote)
     => /\ credFile'.exists /\ credFile'.json
        /\ TruthyStr(credFile'.obj.access_token)
        /\ credFile'.obj.expiry_date # NoNum
    ]_vars

\* C24: after saveCredentials(c) the file holds exactly access_token,
\* token_type ('Bearer' when c has none), refresh_token, resource_url,
\* expiry_date and scope of c; every other key, whatever the file held
\* before, is gone.
C24_SaveOverwritesWholeFile ==
  (codec.pc \in {"written", "loaded"} /\ codec.style = "saved") =>
    /\ credFile.exists /\ credFile.json
    /\ credFile.obj.access_token = codec.input.accessToken
    /\ credFile.obj.token_type =
         (IF TruthyStr(codec.input.tokenType) THEN codec.input.tokenType ELSE "Bearer")
    /\ credFile.obj.refresh_token = codec.input.refreshToken
    /\ credFile.obj.resource_url = codec.input.resourceUrl
    /\ credFile.obj.expiry_date = codec.input.expiryDate
    /\ credFile.obj.scope = codec.input.scope
    /\ credFile.obj.accessToken = Undef /\ credFile.obj.tokenType = Undef
    /\ credFile.obj.refreshToken = Undef /\ credFile.obj.resourceUrl = Undef
    /\ credFile.obj.expiryDate = NoNum /\ credFile.obj.expiresAt = NoNum
    /\ credFile.obj.expires_at = NoNum
    /\ credFile.obj.email = Undef /\ credFile.obj.updated_at = NoNum

\* C24 witness: a save of a credential without token type, refresh token
\* and resource URL over a file that held another tool's record.
C24_Witness ==
  /\ codec.pc = "written"
  /\ codec.style = "saved"
  /\ codec.previous = JsonFile(PreviousObj)
  /\ codec.input.tokenType = Undef
  /\ codec.input.refreshToken = Undef
  /\ codec.input.resourceUrl = Undef
  /\ credFile.obj.token_type = "Bearer"
  /\ credFile.obj.email = Undef

\* C25 (as claimed): whenever no write is under way, the file holds exactly
\* the record of the write that returned last, under every interleaving of
\* the plugin's write and the helper's write.
C25_LastWriteWins ==
  (/\ codec.pc = "writing"
   /\ \A w \in Writers : codec.fd[w] # "open"
   /\ \E w \in Writers : codec.fd[w] = "closed")
  => credFile = codec.last

\* the record the claim describes for a refresh called with refresh token
\* old at time t and answered with body data
BuiltFrom(r, old, data, t) ==
  /\ r.present
  /\ r.accessToken = data.access_token
  /\ r.tokenType = (IF TruthyStr(data.token_type) THEN data.token_type ELSE "Bearer")
  /\ r.refreshToken = (IF TruthyStr(data.refresh_token) THEN data.refresh_token ELSE old)
  /\ r.resourceUrl = data.resource_url
  /\ r.scope = data.scope
  /\ r.expiryDate = (IF data.expires_in = NoNum THEN NoNum ELSE t + data.expires_in * 1000)

\* C26: refreshAccessToken resolves only on a 2xx answer, and then with a
\* record built wholly from the answer: expiryDate = now + expires_in*1000,
\* the new refresh token when the answer has one and the old one
\* otherwise, every other field from the answer and none from the old
\* credential; on any other answer it rejects and its caller gets no record.
C26_RefreshBuildsNewRecord ==
  [][/\ \A c \in Calls :
          (loader[c].pc = "refreshing" /\ loader'[c].pc = "done") =>
            IF loader'[c].outcome = "ok"
            THEN \E resp \in RefreshResponses(issued') :
                   resp.ok /\ BuiltFrom(loader'[c].refreshed, loader[c].arg, resp.body, now)
            ELSE loader'[c].refreshed = NullCreds /\ credFile' = credFile
     /\ (gvc.pc = "refreshing" /\ gvc'.pc = "done") =>
          IF gvc'.outcome = "ok"
          THEN \E resp \in RefreshResponses(issued') :
                 resp.ok /\ BuiltFrom(gvc'.result, gvc.arg, resp.body, now)
          ELSE gvc'.result = NullCreds /\ credFile' = credFile
    ]_vars

\* C26 witness: a refresh with the stored refresh token sr1 was answered
\* without refresh token and resource_url; the record returned keeps sr1,
\* has no resource URL although the stored credential had one, and expires
\* 20 s after the answer.
C26_Witness ==
  /\ gvc.pc = "done"
  /\ gvc.outcome = "ok"
  /\ gvc.arg = "sr1"
  /\ gvc.result.accessToken = IssuedToken(1)
  /\ gvc.result.refreshToken = "sr1"
  /\ gvc.result.resourceUrl = Undef
  /\ gvc.result.expiryDate = gvc.retAt + 20 * 1000

\* C27 (as claimed): requestDeviceAuthorization sends one request; it fails
\* exactly on a non-2xx answer and on an answer without device_code or
\* user_code, and the error it fails with then holds the HTTP status and
\* the raw body of the answer.
C27_FailureCarriesStatusAndBody ==
  (codec.style = "device" /\ codec.pc = "returned") =>
    /\ codec.requests = 1
    /\ (codec.device.kind = "throw") <=>
         (\/ ~ResponseOk(codec.response)
          \/ ~TruthyStr(codec.response.device_code)
          \/ ~TruthyStr(codec.response.user_code))
    /\ (codec.device.kind = "throw") =>
         /\ Includes(codec.device.message, ToString(codec.response.status))
         /\ Includes(codec.device.message, codec.response.text)

\* a value that starts with a URL scheme
HasScheme(v) == StartsWith(v, "http://") \/ StartsWith(v, "https://")

\* C28 (as claimed): getBaseUrl returns the default base for an absent
\* value, the value with "/v1" appended unless it ends with it for a value
\* that starts with a scheme, and "https://" + value + "/v1" for every other
\* value, hostnames beginning with "http" included.
C28_BaseUrlBySchemeOrHost ==
  (codec.style = "baseUrl" /\ codec.pc = "computed") =>
    LET v == codec.input.resourceUrl IN
    codec.baseUrl =
      (IF v = Undef \/ v = "" THEN DefaultBaseUrl
       ELSE IF HasScheme(v) THEN (IF EndsWith(v, "/v1") THEN v ELSE v \o "/v1")
       ELSE "https://" \o v \o "/v1")

\* C29: every poll request of an attempt carries the device code the
\* endpoint issued to that attempt and the verifier whose challenge this
\* attempt sent, never those of the other attempt, and a step of one
\* attempt changes nothing of the other attempt's state.
C29_AttemptsAreIndependent ==
  [][\A f \in Flows : \A g \in Flows \ {f} :
       /\ flow'[f].polls > flow[f].polls =>
            /\ flow'[f].sent.device_code = flow[f].deviceAuth.device_code
            /\ flow'[f].sent.device_code = "dc-" \o f
            /\ flow[f].challenge = "S256(" \o flow'[f].sent.code_verifier \o ")"
            /\ flow'[f].sent.device_code # flow[g].deviceAuth.device_code
            /\ flow'[f].sent.code_verifier # flow[g].verifier
       /\ flow'[f] # flow[f] => flow'[g] = flow[g]
    ]_vars

\* C29 witness: both attempts have polled, the second one last, while the
\* first one's request is still unanswered.
C29_Witness ==
  /\ flow["f1"].pc = "polling"
  /\ flow["f2"].pc = "polling"
  /\ flow["f1"].sent = [device_code |-> "dc-f1", code_verifier |-> "v-f1"]
  /\ flow["f2"].sent = [device_code |-> "dc-f2", code_verifier |-> "v-f2"]
  /\ flow["f1"].polls = 2
  /\ flow["f2"].polls = 1

\* C30 (as claimed): the token QwenClient puts into the Authorization
\* header of a chat-completion request belongs to a credential that is not
\* expired when the request is sent (for a credential that was not expired
\* when the client got it, from initialize or from setCredentials).
C30_SentTokenNotExpired ==
  (/\ gvc.sentAt # NoNum
   /\ ~isCredentialsExpired(gvc.sent, gvc.sentGotAt))
  => ~isCredentialsExpired(gvc.sent, gvc.sentAt)

\* C31 (as claimed): what getValidCredentials returns is null or a
\* credential that is not expired when it returns, whether the stored
\* credential has a refresh token or not (here: for the returns that did
\* not go through a refresh).
C31_ReturnsNullOrUnexpired ==
  (gvc.pc = "done" /\ gvc.outcome # "ok" /\ gvc.result.present)
  => ~isCredentialsExpired(gvc.result, gvc.retAt)

\* C32 (as claimed): a base URL other than the default one that the loader
\* returns beside an access token was computed from the stored credential
\* that this access token belongs to.
C32_BaseUrlOfSameCredential ==
  [][\A c \in Calls :
       (Returned(c) /\ ~loader'[c].result.isNull
          /\ loader'[c].result.baseURL # DefaultBaseUrl) =>
         /\ loadCredentials(credFile').accessToken = loader'[c].result.apiKey
         /\ loader'[c].result.baseURL = getBaseUrl(loadCredentials(credFile').resourceUrl)
    ]_vars

\* C33 (as claimed): while two loader calls await a refresh with the same
\* refresh token, the call whose refresh is rejected still returns an
\* access token, under every order in which the two answers arrive.
C33_OverlappingCallsBothReturnToken ==
  [][\A c \in Calls : \A d \in Calls \ {c} :
       (/\ loader[c].pc = "refreshing"
        /\ loader[d].pc = "refreshing"
        /\ loader[c].arg = loader[d].arg
        /\ loader'[d].pc = "done"
        /\ loader'[d].outcome = "failed")
       => ~loader'[d].result.isNull
    ]_vars

\* C34 (as claimed): when the plugin's callback returns success the file has
\* been written in that step, and the access token, refresh token ('' for
\* an absent one) and expiry it hands to the host are those of the record
\* in the file.
C34_HandedEqualsSaved ==
  [][\A f \in Flows :
       (flow[f].kind = "plugin" /\ flow[f].handed.type # "success"
          /\ flow'[f].handed.type = "success") =>
         /\ flow'[f].wrote
         /\ credFile'.exists /\ credFile'.json
         /\ flow'[f].handed.access = credFile'.obj.access_token
         /\ flow'[f].handed.refresh =
              (IF credFile'.obj.refresh_token = Undef THEN ""
               ELSE credFile'.obj.refresh_token)
         /\ flow'[f].handed.expires = credFile'.obj.expiry_date
    ]_vars

\* C35: when the device-authorization request fails, the plugin's authorize
\* opens no browser and returns the URL '', and its callback, once called,
\* returns {type: 'failed'} at once: no poll request, no write of the file.
C35_FailedAuthorizationDoesNothing ==
  [][\A f \in Flows :
       flow[f].kind = "plugin" =>
         /\ (flow[f].pc = "authorizing" /\ flow'[f].pc # "authorizing"
                /\ ~flow'[f].deviceAuth.ok) =>
              /\ flow'[f].pc = "ready"
              /\ flow'[f].notified = 0
              /\ flow'[f].shown[1] = ""
              /\ credFile' = credFile
         /\ (flow[f].pc = "ready" /\ ~flow[f].deviceAuth.ok /\ flow'[f] # flow[f]) =>
              /\ flow'[f].pc = "done"
              /\ flow'[f].handed = [NoHandOver EXCEPT !.type = "failed"]
              /\ flow'[f].polls = 0
              /\ flow'[f].notified = 0
              /\ ~flow'[f].wrote
              /\ credFile' = credFile
    ]_vars

\* C35 witness: the device-authorization request failed and the callback
\* returned failed, with no browser opened, no poll sent and the file that
\* was there before still in place.
C35_Witness ==
  /\ flow["f1"].kind = "plugin"
  /\ flow["f1"].pc = "done"
  /\ ~flow["f1"].deviceAuth.ok
  /\ flow["f1"].handed.type = "failed"
  /\ flow["f1"].shown[1] = ""
  /\ flow["f1"].notified = 0
  /\ flow["f1"].polls = 0
  /\ StoredToken(credFile) = "s2"

\* a character of s that is not a space
HasText(s) == s # Undef /\ \E i \in 1..Len(s) : SubSeq(s, i, i) # " "

\* C36: the helper changes the file only in a run where the file it found
\* held no access_token or the answer to the overwrite prompt was exactly
\* 'y' or 'Y', and where the pasted token has text besides spaces; what it
\* writes is then its own record; every other run leaves the file as found.
C36_CliWritesOnlyWhenAllowed ==
  /\ (codec.style = "cli" /\ (codec.saved \/ credFile # codec.previous)) =>
       /\ \/ ~codec.previous.exists
          \/ ~TruthyStr(codec.previous.obj.access_token)
          \/ codec.overwrite \in {"y", "Y"}
       /\ HasText(codec.token)
       /\ credFile.obj.access_token \in {"tok1", "tok2", "Bearer"}
       /\ credFile.obj.refresh_token = Undef
  /\ (codec.style = "cli" /\ codec.pc \in {"crashed", "kept", "noToken"}) =>
       credFile = codec.previous

\* C36 witness: the helper found a credential, was told 'Y', was given
\* ' bearer tok1 ' and replaced the file with its own record.
C36_Witness ==
  /\ codec.style = "cli"
  /\ codec.pc = "saved"
  /\ StoredToken(codec.previous) = "s2"
  /\ codec.overwrite = "Y"
  /\ codec.token = " bearer tok1 "
  /\ credFile.obj.access_token = "tok1"
  /\ credFile.obj.email = "user@example.com"
  /\ credFile.obj.updated_at = now

====
